---------------------------- MODULE Spec2Model ----------------------------
(***************************************************************************)
(* A model of timesignal's waveform core: the calendar (datetime.c), the   *)
(* per-station encoders and the sample scheduler (station.c), the sine     *)
(* oscillator (iir.c) and the ALSA output loop (alsa.c, timesignal.c).     *)
(*                                                                         *)
(* Representation notes.                                                   *)
(*  - TLC integers are 32 bits wide, the program's timestamps are 64-bit   *)
(*    millisecond counts.  A millisecond count is therefore kept as a      *)
(*    record [d, ms] standing for d * 86400000 + ms with 0 <= ms <         *)
(*    86400000; d is the quotient tsig_datetime_parse_timestamp computes   *)
(*    first, ms the remainder it goes on with.                             *)
(*  - Doubles are not available.  Gains are fixed-point millionths, and an *)
(*    oscillator value is a symbolic record: the numerator of its angle    *)
(*    (in units of 2*pi/period) and the number of recurrence steps that    *)
(*    produced it, so that a value produced by the recurrence is           *)
(*    distinguishable from a freshly primed seed.                          *)
(*  - The status callbacks and the readout strings (xmit, meaning) only    *)
(*    feed the logger and are left out.                                    *)
(***************************************************************************)
EXTENDS Integers, Sequences, FiniteSets, TLC

(***************************************************************************)
(* Program constants.                                                      *)
(***************************************************************************)
TSIG_STATION_MSECS_TICK == 50
TSIG_STATION_TICKS_SEC == 20
TSIG_STATION_TICKS_MIN == 1200
station_drift_threshold == 500
station_msecs_min == 60000
station_sync_marker == 255
station_ultrasound_threshold == 20000
station_jjy_morse_min == 15
station_jjy_morse_min2 == 45
station_jjy_morse_sec == 40
station_jjy_morse_ms == 550
station_jjy_morse_end_sec == 49
station_jjy_morse_tick == 811
station_jjy_morse_end_tick == 980
station_ticks_per_dit == 2
station_ticks_per_dah == 5
station_ticks_per_ieg == 1
station_ticks_per_icg == 6
station_ticks_per_iwg == 10
datetime_msecs_day == 86400000
datetime_msecs_hour == 3600000
datetime_msecs_min == 60000

(***************************************************************************)
(* 64-bit millisecond counts as [d, ms].                                   *)
(***************************************************************************)
Ms64(d, ms) == [d |-> d + (ms \div datetime_msecs_day), ms |-> ms % datetime_msecs_day]

MsAdd(t, k) == Ms64(t.d, t.ms + k)

MsPlus(a, b) == Ms64(a.d + b.d, a.ms + b.ms)

MsMinus(a, b) == Ms64(a.d - b.d, a.ms - b.ms)

MsZero == Ms64(0, 0)

\* |t| <= k for a signed count t and 0 <= k < 86400000
MsAbsLeq(t, k) ==
  \/ t.d = 0 /\ t.ms <= k
  \/ t.d = -1 /\ t.ms >= datetime_msecs_day - k

\* x * 1000 / r without leaving 32 bits (x, r below 2^31 / 1000 after the split)
MulDiv1000(x, r) == (x \div r) * 1000 + ((x % r) * 1000) \div r

\* x & m for a single-bit mask m
BitAnd(x, m) == ((x \div m) % 2) * m

RECURSIVE PopCount(_)
PopCount(x) == IF x = 0 THEN 0 ELSE (x % 2) + PopCount(x \div 2)

Bool01(b) == IF b THEN 1 ELSE 0

(***************************************************************************)
(* datetime.c                                                              *)
(***************************************************************************)
tsig_datetime_is_leap(year) ==
  (year % 4 = 0) /\ ((year % 100 # 0) \/ (year % 400 = 0))

tsig_datetime_parse_timestamp(t) ==
  LET day == t.d
      dse == day + 719468
      era == dse \div 146097
      doe == dse - era * 146097
      yoe == (doe - doe \div 1460 + doe \div 36524 - doe \div 146096) \div 365
      y   == yoe + era * 400
      doy == doe - (365 * yoe + yoe \div 4 - yoe \div 100)
      m   == (5 * doy + 2) \div 153
      year == y + Bool01(m >= 10)
      msD == t.ms
      msH == msD % datetime_msecs_hour
      msM == msH % datetime_msecs_min
  IN  [ year |-> year,
        mon  |-> IF m < 10 THEN m + 3 ELSE m - 9,
        day  |-> doy - (153 * m + 2) \div 5 + 1,
        doy  |-> IF m < 10 THEN doy + 60 + Bool01(tsig_datetime_is_leap(year))
                           ELSE doy - 305,
        dow  |-> (day + 4) % 7,
        hour |-> msD \div datetime_msecs_hour,
        min  |-> msH \div datetime_msecs_min,
        sec  |-> msM \div 1000,
        msec |-> msM % 1000 ]

\* a changeover taken at 02:00 instead of 01:00 UTC
tsig_datetime_is_eu_dst_at_two(datetime) ==
  LET mon == datetime.mon
      hour == datetime.hour
      min == datetime.min
      day == datetime.day
      dow == datetime.dow
      fsom == (((day - 1) + (IF dow # 0 THEN 7 - dow ELSE 0)) % 7) + 1
      lsom == fsom + ((31 - fsom) \div 7) * 7
      is_changed == (day = lsom /\ hour >= 2) \/ day > lsom
  IN  IF 3 < mon /\ mon < 10 THEN [is_est |-> TRUE, in_mins |-> -1]
      ELSE IF mon = 3 \/ mon = 10 THEN
        [ is_est |-> ((mon = 3) = is_changed),
          in_mins |-> IF day = lsom - 1 THEN 60 * (24 - hour) + 120 - min
                      ELSE IF day = lsom /\ hour < 2 THEN 120 - min
                      ELSE -1 ]
      ELSE [is_est |-> FALSE, in_mins |-> -1]

\* returns [is_est, in_mins]; in_mins is what is stored through out_in_mins
tsig_datetime_is_eu_dst(datetime) ==
  LET mon == datetime.mon
      hour == datetime.hour
      min == datetime.min
      day == datetime.day
      dow == datetime.dow
      fsom == (((day - 1) + (IF dow # 0 THEN 7 - dow ELSE 0)) % 7) + 1
      lsom == fsom + ((31 - fsom) \div 7) * 7
      is_changed == (day = lsom /\ hour >= 1) \/ day > lsom
  IN  IF 3 < mon /\ mon < 10 THEN [is_est |-> TRUE, in_mins |-> -1]
      ELSE IF mon = 3 \/ mon = 10 THEN
        [ is_est |-> ((mon = 3) = is_changed),
          in_mins |-> IF day = lsom - 1 THEN 60 * (24 - hour) + 60 - min
                      ELSE IF day = lsom /\ hour < 1 THEN 60 - min
                      ELSE -1 ]
      ELSE [is_est |-> FALSE, in_mins |-> -1]

\* a start of DST taken on the first Sunday of March
tsig_datetime_is_us_dst_first_sunday(datetime) ==
  LET mon == datetime.mon
      day == datetime.day
      dow == datetime.dow
      change_day == (((day - 1) + (IF dow # 0 THEN 7 - dow ELSE 0)) % 7) + 1
  IN  IF 3 < mon /\ mon < 11 THEN [is_dst |-> TRUE, is_dst_end |-> TRUE]
      ELSE IF mon = 3 \/ mon = 11 THEN
        [ is_dst |-> IF mon = 3 THEN day > change_day ELSE day <= change_day,
          is_dst_end |-> IF mon = 3 THEN day >= change_day ELSE day < change_day ]
      ELSE [is_dst |-> FALSE, is_dst_end |-> FALSE]

\* returns [is_dst, is_dst_end]
tsig_datetime_is_us_dst(datetime) ==
  LET mon == datetime.mon
      sunday == IF mon = 3 THEN 8 ELSE 1
      day == datetime.day
      dow == datetime.dow
      change_day == (((day - 1) + (IF dow # 0 THEN 7 - dow ELSE 0)) % 7) + sunday
  IN  IF 3 < mon /\ mon < 11 THEN [is_dst |-> TRUE, is_dst_end |-> TRUE]
      ELSE IF mon = 3 \/ mon = 11 THEN
        [ is_dst |-> IF mon = 3 THEN day > change_day ELSE day <= change_day,
          is_dst_end |-> IF mon = 3 THEN day >= change_day ELSE day < change_day ]
      ELSE [is_dst |-> FALSE, is_dst_end |-> FALSE]

(***************************************************************************)
(* station.c: station table and encoder helpers.                           *)
(***************************************************************************)
StationIds == {"BPC", "DCF77", "JJY", "JJY60", "MSF", "WWVB"}

\* xmit_low is kept in millionths
station_info ==
  [ BPC   |-> [utc_offset |-> 28800000, utc_st_offset |-> 28800000, freq |-> 68500, xmit_low |-> 316228],
    DCF77 |-> [utc_offset |-> 3600000,  utc_st_offset |-> 7200000,  freq |-> 77500, xmit_low |-> 149624],
    JJY   |-> [utc_offset |-> 32400000, utc_st_offset |-> 32400000, freq |-> 40000, xmit_low |-> 316228],
    JJY60 |-> [utc_offset |-> 32400000, utc_st_offset |-> 32400000, freq |-> 60000, xmit_low |-> 316228],
    MSF   |-> [utc_offset |-> 0,        utc_st_offset |-> 3600000,  freq |-> 60000, xmit_low |-> 0],
    WWVB  |-> [utc_offset |-> 0,        utc_st_offset |-> 0,        freq |-> 60000, xmit_low |-> 141254] ]

\* a parity that reads only the lowest bit of each byte
RECURSIVE station_even_parity_lsb(_, _, _)
station_even_parity_lsb(data, lo, hi) ==
  IF lo >= hi THEN 0
  ELSE ((data[lo] % 2) + station_even_parity_lsb(data, lo + 1, hi)) % 2

RECURSIVE station_even_parity(_, _, _)
station_even_parity(data, lo, hi) ==
  IF lo >= hi THEN 0
  ELSE (PopCount(data[lo]) + station_even_parity(data, lo + 1, hi)) % 2

station_odd_parity(data, lo, hi) == 1 - station_even_parity(data, lo, hi)

\* bits[lo + k] = val & (1 << k)
LsbField(i, lo, val) == BitAnd(val, 2 ^ (i - lo))

\* bits[lo + k] = val & (1 << (width - 1 - k))
MsbField(i, lo, width, val) == BitAnd(val, 2 ^ (width - 1 - (i - lo)))

\* C integer division truncates toward zero
TruncDiv(a, b) == IF a >= 0 THEN a \div b ELSE -((-a) \div b)

(***************************************************************************)
(* The transmit level loops.  A run [j0, n, v] is n consecutive            *)
(* assignments of v to xmit_level bits j0, j0 + 1, ...; the runs are       *)
(* listed in the order the code performs them.                             *)
(***************************************************************************)
Run(j0, n, v) == [j0 |-> j0, n |-> n, v |-> v]

\* one pass of "for (i, j) { lo...; hi... }" over seconds i..n-1, first[i]
\* ticks at level vfirst followed by TICKS_SEC - first[i] at the other; j is
\* the bit the pass starts at, and each second advances it by TICKS_SEC
RECURSIVE FillRuns(_, _, _, _, _)
FillHalves(first, i, mid, n, j, vfirst) ==
  FillRuns(first, i, mid, j, vfirst)
    \o FillRuns(first, mid, n, j + TSIG_STATION_TICKS_SEC * (mid - i), vfirst)

FillRuns(first, i, n, j, vfirst) ==
  IF i >= n THEN << >>
  ELSE IF n - i = 1
  THEN <<Run(j, first[i], vfirst),
         Run(j + first[i], TSIG_STATION_TICKS_SEC - first[i], 1 - vfirst)>>
  ELSE FillHalves(first, i, (i + n) \div 2, n, j, vfirst)

RunCovers(r, k) == r.j0 <= k /\ k < r.j0 + r.n

\* xmit_level[j / CHAR_BIT] & (1 << (j % CHAR_BIT)), as 0 or 1
XmitBit(xmit_level, j) == (xmit_level[j \div 8] \div (2 ^ (j % 8))) % 2

\* bit j after the runs numbered in idx have been written over prev
XmitBitAfter(prev, runs, idx, j) ==
  LET hits == {x \in idx : RunCovers(runs[x], j)}
  IN  IF hits = {} THEN XmitBit(prev, j)
      ELSE runs[CHOOSE x \in hits : \A y \in hits : y <= x].v

\* those of the runs numbered in idx that assign some bit of lo .. hi - 1
RunsIn(runs, idx, lo, hi) == {x \in idx : runs[x].j0 < hi /\ lo < runs[x].j0 + runs[x].n}

XmitByteAfter(prev, runs, idx, b) ==
  XmitBitAfter(prev, runs, idx, 8 * b) + 2 * XmitBitAfter(prev, runs, idx, 8 * b + 1)
    + 4 * XmitBitAfter(prev, runs, idx, 8 * b + 2)
    + 8 * XmitBitAfter(prev, runs, idx, 8 * b + 3)
    + 16 * XmitBitAfter(prev, runs, idx, 8 * b + 4)
    + 32 * XmitBitAfter(prev, runs, idx, 8 * b + 5)
    + 64 * XmitBitAfter(prev, runs, idx, 8 * b + 6)
    + 128 * XmitBitAfter(prev, runs, idx, 8 * b + 7)

\* bytes lo .. hi - 1 of the bitmap after the runs, as a sequence
RECURSIVE XmitBytes(_, _, _, _, _)
XmitHalves(prev, runs, idx, lo, mid, hi) ==
  XmitBytes(prev, runs, RunsIn(runs, idx, 8 * lo, 8 * mid), lo, mid)
    \o XmitBytes(prev, runs, RunsIn(runs, idx, 8 * mid, 8 * hi), mid, hi)

XmitBytes(prev, runs, idx, lo, hi) ==
  IF hi - lo = 1 THEN <<XmitByteAfter(prev, runs, idx, lo)>>
  ELSE XmitHalves(prev, runs, idx, lo, (lo + hi) \div 2, hi)

XmitFromBytes(bytes) == [b \in 0 .. (TSIG_STATION_TICKS_MIN \div 8) - 1 |-> bytes[b + 1]]

\* the bitmap, uint8_t xmit_level[TICKS_MIN / CHAR_BIT], after the runs
XmitApply(prev, runs) ==
  IF Len(runs) = 0 THEN prev
  ELSE XmitFromBytes(XmitBytes(prev, runs, 1 .. Len(runs), 0, TSIG_STATION_TICKS_MIN \div 8))

\* every bit index the runs assign
XmitWritten(runs) ==
  UNION { runs[x].j0 .. (runs[x].j0 + runs[x].n - 1) : x \in 1 .. Len(runs) }

\* the bits of 0..1199 the runs leave alone, and the indices they assign
\* outside 0..1199
XmitMissed(runs) == (0 .. (TSIG_STATION_TICKS_MIN - 1)) \ XmitWritten(runs)

XmitStray(runs) == XmitWritten(runs) \ (0 .. (TSIG_STATION_TICKS_MIN - 1))

(***************************************************************************)
(* BPC                                                                     *)
(***************************************************************************)
\* bits[] after the date fields are stored, the parity slots 10 and 19 not yet
station_fields_bpc(datetime) ==
  [ i \in 0 .. 19 |->
      CASE i = 0 -> station_sync_marker
        [] i = 3 -> ((datetime.hour % 12) \div 4) % 4
        [] i = 4 -> (datetime.hour % 12) % 4
        [] i = 5 -> (datetime.min \div 16) % 4
        [] i = 6 -> (datetime.min \div 4) % 4
        [] i = 7 -> datetime.min % 4
        [] i = 8 -> ((IF datetime.dow # 0 THEN datetime.dow ELSE 7) \div 4) % 2
        [] i = 9 -> (IF datetime.dow # 0 THEN datetime.dow ELSE 7) % 4
        [] i = 11 -> (datetime.day \div 16) % 2
        [] i = 12 -> (datetime.day \div 4) % 4
        [] i = 13 -> datetime.day % 4
        [] i = 14 -> (datetime.mon \div 4) % 4
        [] i = 15 -> datetime.mon % 4
        [] i = 16 -> ((datetime.year % 100) \div 16) % 4
        [] i = 17 -> ((datetime.year % 100) \div 4) % 4
        [] i = 18 -> (datetime.year % 100) % 4
        [] OTHER -> 0 ]

\* bits[10] = (is_pm << 1) | parity(1, 10); bits[19] = ((year >> 5) & 2) | parity(11, 19)
station_parities_bpc(datetime, bits) ==
  [ i \in 0 .. 19 |->
      CASE i = 10 -> Bool01(datetime.hour >= 12) * 2 + station_even_parity(bits, 1, 10)
        [] i = 19 -> BitAnd((datetime.year % 100) \div 32, 2)
                       + station_even_parity(bits, 11, 19)
        [] OTHER -> bits[i] ]

station_bits_bpc_at(datetime) == station_parities_bpc(datetime, station_fields_bpc(datetime))

\* bits[] as it stands when the fill loop starts
station_bits_bpc(utc_timestamp) ==
  station_bits_bpc_at(
    tsig_datetime_parse_timestamp(MsAdd(utc_timestamp, station_info.BPC.utc_offset)))

\* bits[1] = 1 << p
BpcRepMark(p) == 2 ^ p

\* bits[i] during repetition p of the fill loop
station_bits_bpc_pass(bits, p, i) ==
  IF i = 1 /\ p > 0 THEN BpcRepMark(p)
  ELSE IF i = 10 /\ p >= 1 THEN (IF bits[10] % 2 = 1 THEN bits[10] - 1 ELSE bits[10] + 1)
  ELSE bits[i]

\* the value each of the 60 seconds is keyed with
station_slots_bpc_of(bits) ==
  [ s \in 0 .. 59 |-> station_bits_bpc_pass(bits, s \div 20, s % 20) ]

station_slots_bpc(utc_timestamp) == station_slots_bpc_of(station_bits_bpc(utc_timestamp))

BpcLoTicks(v) ==
  (100 * (IF v = station_sync_marker THEN 0 ELSE v + 1)) \div TSIG_STATION_MSECS_TICK

BpcLo(slots) == [s \in 0 .. 59 |-> BpcLoTicks(slots[s])]

station_runs_bpc(utc_timestamp) ==
  FillRuns(BpcLo(station_slots_bpc(utc_timestamp)), 0, 60, 0, 0)

(***************************************************************************)
(* DCF77                                                                   *)
(***************************************************************************)
\* the zone flag without the one-minute look-ahead
XmitSummerTimeOfThisMinute(is_est, in_mins) == is_est

\* is_xmit = is_est ^ (in_mins == 1)
XmitSummerTime(is_est, in_mins) == (is_est # (in_mins = 1))

\* civil_offset = is_xmit ? info->utc_st_offset : info->utc_offset
CivilOffset(id, is_xmit) ==
  IF is_xmit THEN station_info[id].utc_st_offset ELSE station_info[id].utc_offset

\* bits[] after the flags and date fields are stored, the parity bits not yet
station_fields_dcf77(datetime, is_chg, is_xmit_cest) ==
  [ i \in 0 .. 59 |->
      CASE i = 16 -> Bool01(is_chg)
        [] i = 17 -> Bool01(is_xmit_cest)
        [] i = 18 -> Bool01(~is_xmit_cest)
        [] i = 20 -> 1
        [] i \in 21 .. 24 -> LsbField(i, 21, datetime.min % 10)
        [] i \in 25 .. 27 -> LsbField(i, 25, datetime.min \div 10)
        [] i \in 29 .. 32 -> LsbField(i, 29, datetime.hour % 10)
        [] i \in 33 .. 34 -> LsbField(i, 33, datetime.hour \div 10)
        [] i \in 36 .. 39 -> LsbField(i, 36, datetime.day % 10)
        [] i \in 40 .. 41 -> LsbField(i, 40, datetime.day \div 10)
        [] i \in 42 .. 44 -> LsbField(i, 42, IF datetime.dow # 0 THEN datetime.dow ELSE 7)
        [] i \in 45 .. 48 -> LsbField(i, 45, datetime.mon % 10)
        [] i = 49 -> LsbField(i, 49, datetime.mon \div 10)
        [] i \in 50 .. 53 -> LsbField(i, 50, datetime.year % 10)
        [] i \in 54 .. 57 -> LsbField(i, 54, (datetime.year % 100) \div 10)
        [] i = 59 -> station_sync_marker
        [] OTHER -> 0 ]

\* bits[28], bits[35], bits[58]: even parity over the minute, hour and date
station_parities_dcf77(bits) ==
  [ i \in 0 .. 59 |->
      CASE i = 28 -> station_even_parity(bits, 21, 28)
        [] i = 35 -> station_even_parity(bits, 29, 35)
        [] i = 58 -> station_even_parity(bits, 36, 58)
        [] OTHER -> bits[i] ]

station_bits_dcf77_zone(utc_timestamp, is_chg, is_xmit_cest) ==
  station_parities_dcf77(
    station_fields_dcf77(
      tsig_datetime_parse_timestamp(
        MsAdd(utc_timestamp, CivilOffset("DCF77", is_xmit_cest) + station_msecs_min)),
      is_chg, is_xmit_cest))

station_bits_dcf77_dst(utc_timestamp, dst) ==
  station_bits_dcf77_zone(utc_timestamp, 1 <= dst.in_mins /\ dst.in_mins <= 60,
                          XmitSummerTime(dst.is_est, dst.in_mins))

station_bits_dcf77(utc_timestamp) ==
  station_bits_dcf77_dst(utc_timestamp,
    tsig_datetime_is_eu_dst(tsig_datetime_parse_timestamp(utc_timestamp)))

Dcf77LoTicks(v) ==
  (100 * (IF v = station_sync_marker THEN 0 ELSE Bool01(v # 0) + 1))
    \div TSIG_STATION_MSECS_TICK

Dcf77Lo(bits) == [s \in 0 .. 59 |-> Dcf77LoTicks(bits[s])]

station_runs_dcf77(utc_timestamp) ==
  FillRuns(Dcf77Lo(station_bits_dcf77(utc_timestamp)), 0, 60, 0, 0)

(***************************************************************************)
(* JJY and JJY60                                                           *)
(***************************************************************************)
JjySync == {0, 9, 19, 29, 39, 49, 59}

JjyIsAnnounce(dt) == dt.min = station_jjy_morse_min \/ dt.min = station_jjy_morse_min2

\* bits[] after the date fields are stored, the parity bits not yet
station_fields_jjy(datetime) ==
  [ i \in 0 .. 59 |->
      CASE i \in JjySync -> station_sync_marker
        [] i \in 1 .. 3 -> MsbField(i, 1, 3, datetime.min \div 10)
        [] i \in 5 .. 8 -> MsbField(i, 5, 4, datetime.min % 10)
        [] i \in 12 .. 13 -> MsbField(i, 12, 2, datetime.hour \div 10)
        [] i \in 15 .. 18 -> MsbField(i, 15, 4, datetime.hour % 10)
        [] i \in 22 .. 23 -> MsbField(i, 22, 2, datetime.doy \div 100)
        [] i \in 25 .. 28 -> MsbField(i, 25, 4, (datetime.doy % 100) \div 10)
        [] i \in 30 .. 33 -> MsbField(i, 30, 4, datetime.doy % 10)
        [] i \in 41 .. 44 -> MsbField(i, 41, 4, (datetime.year % 100) \div 10)
        [] i \in 45 .. 48 -> MsbField(i, 45, 4, datetime.year % 10)
        [] i \in 50 .. 52 -> IF JjyIsAnnounce(datetime) THEN 0
                             ELSE MsbField(i, 50, 3, datetime.dow)
        [] OTHER -> 0 ]

\* bits[36], bits[37]: even parity over the hour and the minute
station_parities_jjy(bits) ==
  [ i \in 0 .. 59 |->
      CASE i = 36 -> station_even_parity(bits, 12, 19)
        [] i = 37 -> station_even_parity(bits, 1, 9)
        [] OTHER -> bits[i] ]

station_datetime_jjy(utc_timestamp) ==
  tsig_datetime_parse_timestamp(MsAdd(utc_timestamp, station_info.JJY.utc_offset))

\* bits[] as it stands when the fill loop starts
station_bits_jjy(utc_timestamp) ==
  station_parities_jjy(station_fields_jjy(station_datetime_jjy(utc_timestamp)))

\* station_xmit_jjy_morse_pulse, then the gap that follows it
RECURSIVE MorsePulses(_, _)
MorsePulses(k, elems) ==
  IF elems = << >> THEN << >>
  ELSE <<Run(k, elems[1][1], 1)>>
         \o MorsePulses(k + elems[1][1] + elems[1][2], Tail(elems))

MorseJ ==
  << <<station_ticks_per_dit, station_ticks_per_ieg>>,
     <<station_ticks_per_dah, station_ticks_per_ieg>>,
     <<station_ticks_per_dah, station_ticks_per_ieg>>,
     <<station_ticks_per_dah, station_ticks_per_icg>> >>

MorseY ==
  << <<station_ticks_per_dah, station_ticks_per_ieg>>,
     <<station_ticks_per_dit, station_ticks_per_ieg>>,
     <<station_ticks_per_dah, station_ticks_per_ieg>>,
     <<station_ticks_per_dah, station_ticks_per_iwg>> >>

\* the callsign pulses without first clearing seconds 40..48
station_xmit_jjy_morse_no_clear ==
  MorsePulses(station_jjy_morse_tick, MorseJ \o MorseJ \o MorseY \o MorseJ \o MorseJ \o MorseY)

station_xmit_jjy_morse ==
  <<Run(station_jjy_morse_sec * TSIG_STATION_TICKS_SEC,
        (station_jjy_morse_end_sec - station_jjy_morse_sec) * TSIG_STATION_TICKS_SEC, 0)>>
    \o MorsePulses(station_jjy_morse_tick,
                   MorseJ \o MorseJ \o MorseY \o MorseJ \o MorseJ \o MorseY)

JjyHiTicks(v) ==
  (100 * (IF v = station_sync_marker THEN 2 ELSE IF v # 0 THEN 5 ELSE 8))
    \div TSIG_STATION_MSECS_TICK

JjyHi(bits) == [s \in 0 .. 59 |-> JjyHiTicks(bits[s])]

\* the fill loop, which in an announcement minute hands seconds 40..48 to
\* station_xmit_jjy_morse and resumes at second 49
station_fill_jjy(is_announce, hi) ==
  IF is_announce
  THEN FillRuns(hi, 0, station_jjy_morse_sec, 0, 1)
         \o station_xmit_jjy_morse
         \o FillRuns(hi, station_jjy_morse_end_sec, 60, station_jjy_morse_end_tick, 1)
  ELSE FillRuns(hi, 0, 60, 0, 1)

station_runs_jjy(utc_timestamp) ==
  station_fill_jjy(JjyIsAnnounce(station_datetime_jjy(utc_timestamp)),
                   JjyHi(station_bits_jjy(utc_timestamp)))

(***************************************************************************)
(* MSF                                                                     *)
(***************************************************************************)
\* dut1 = station->dut1 / 100, negated when negative; lt0 = 8 when negative
MsfDut1(cfg_dut1) ==
  [ lt0 |-> IF TruncDiv(cfg_dut1, 100) < 0 THEN 8 ELSE 0,
    dut1 |-> IF TruncDiv(cfg_dut1, 100) < 0 THEN -TruncDiv(cfg_dut1, 100)
             ELSE TruncDiv(cfg_dut1, 100) ]

\* bits[] after the flags and date fields are stored, the parity bits not yet
station_fields_msf(datetime, d, is_chg, is_xmit_bst) ==
  [ i \in 0 .. 59 |->
      CASE i = 0 -> station_sync_marker
        [] i \in (1 + d.lt0) .. (8 + d.lt0) -> Bool01(d.dut1 >= i - d.lt0)
        [] i \in 17 .. 20 -> MsbField(i, 17, 4, (datetime.year % 100) \div 10)
        [] i \in 21 .. 24 -> MsbField(i, 21, 4, datetime.year % 10)
        [] i = 25 -> BitAnd(datetime.mon \div 10, 1)
        [] i \in 26 .. 29 -> MsbField(i, 26, 4, datetime.mon % 10)
        [] i \in 30 .. 31 -> MsbField(i, 30, 2, datetime.day \div 10)
        [] i \in 32 .. 35 -> MsbField(i, 32, 4, datetime.day % 10)
        [] i \in 36 .. 38 -> MsbField(i, 36, 3, datetime.dow)
        [] i \in 39 .. 40 -> MsbField(i, 39, 2, datetime.hour \div 10)
        [] i \in 41 .. 44 -> MsbField(i, 41, 4, datetime.hour % 10)
        [] i \in 45 .. 47 -> MsbField(i, 45, 3, datetime.min \div 10)
        [] i \in 48 .. 51 -> MsbField(i, 48, 4, datetime.min % 10)
        [] i = 53 -> Bool01(is_chg)
        [] i = 58 -> Bool01(is_xmit_bst)
        [] OTHER -> 0 ]

\* bits[54..57]: odd parity over the year, the date, the weekday and the time
station_parities_msf(bits) ==
  [ i \in 0 .. 59 |->
      CASE i = 54 -> station_odd_parity(bits, 17, 25)
        [] i = 55 -> station_odd_parity(bits, 25, 36)
        [] i = 56 -> station_odd_parity(bits, 36, 39)
        [] i = 57 -> station_odd_parity(bits, 39, 52)
        [] OTHER -> bits[i] ]

station_bits_msf_zone(utc_timestamp, cfg_dut1, is_chg, is_xmit_bst) ==
  station_parities_msf(
    station_fields_msf(
      tsig_datetime_parse_timestamp(
        MsAdd(utc_timestamp, CivilOffset("MSF", is_xmit_bst) + station_msecs_min)),
      MsfDut1(cfg_dut1), is_chg, is_xmit_bst))

station_bits_msf_dst(utc_timestamp, cfg_dut1, dst) ==
  station_bits_msf_zone(utc_timestamp, cfg_dut1, 1 <= dst.in_mins /\ dst.in_mins <= 61,
                        XmitSummerTime(dst.is_est, dst.in_mins))

station_bits_msf(utc_timestamp, cfg_dut1) ==
  station_bits_msf_dst(utc_timestamp, cfg_dut1,
    tsig_datetime_is_eu_dst(tsig_datetime_parse_timestamp(utc_timestamp)))

MsfLoTicks(v, i) ==
  (100 * ((IF v = station_sync_marker THEN 5 ELSE Bool01(v # 0) + 1)
            + Bool01(53 <= i /\ i <= 58))) \div TSIG_STATION_MSECS_TICK

MsfLo(bits) == [s \in 0 .. 59 |-> MsfLoTicks(bits[s], s)]

station_runs_msf(utc_timestamp, cfg_dut1) ==
  FillRuns(MsfLo(station_bits_msf(utc_timestamp, cfg_dut1)), 0, 60, 0, 0)

(***************************************************************************)
(* WWVB                                                                    *)
(***************************************************************************)
\* bits[] of the minute: datetime is the transmitted time, d0 = dut1 / 100
station_fields_wwvb(datetime, d0, dst) ==
  [ i \in 0 .. 59 |->
      CASE i \in JjySync -> station_sync_marker
        [] i \in 1 .. 3 -> MsbField(i, 1, 3, datetime.min \div 10)
        [] i \in 5 .. 8 -> MsbField(i, 5, 4, datetime.min % 10)
        [] i \in 12 .. 13 -> MsbField(i, 12, 2, datetime.hour \div 10)
        [] i \in 15 .. 18 -> MsbField(i, 15, 4, datetime.hour % 10)
        [] i \in 22 .. 23 -> MsbField(i, 22, 2, datetime.doy \div 100)
        [] i \in 25 .. 28 -> MsbField(i, 25, 4, (datetime.doy % 100) \div 10)
        [] i \in 30 .. 33 -> MsbField(i, 30, 4, datetime.doy % 10)
        [] i = 36 -> Bool01(d0 >= 0)
        [] i = 37 -> Bool01(d0 < 0)
        [] i = 38 -> Bool01(d0 >= 0)
        [] i \in 40 .. 43 -> MsbField(i, 40, 4, IF d0 < 0 THEN -d0 ELSE d0)
        [] i \in 45 .. 48 -> MsbField(i, 45, 4, (datetime.year % 100) \div 10)
        [] i \in 50 .. 53 -> MsbField(i, 50, 4, datetime.year % 10)
        [] i = 55 -> Bool01(tsig_datetime_is_leap(datetime.year))
        [] i = 57 -> Bool01(dst.is_dst_end)
        [] i = 58 -> Bool01(dst.is_dst)
        [] OTHER -> 0 ]

station_bits_wwvb(utc_timestamp, cfg_dut1) ==
  station_fields_wwvb(
    tsig_datetime_parse_timestamp(MsAdd(utc_timestamp, station_info.WWVB.utc_offset)),
    TruncDiv(cfg_dut1, 100),
    tsig_datetime_is_us_dst(tsig_datetime_parse_timestamp(utc_timestamp)))

WwvbLoTicks(v) ==
  (100 * (IF v = station_sync_marker THEN 8 ELSE IF v # 0 THEN 5 ELSE 2))
    \div TSIG_STATION_MSECS_TICK

WwvbLo(bits) == [s \in 0 .. 59 |-> WwvbLoTicks(bits[s])]

station_runs_wwvb(utc_timestamp, cfg_dut1) ==
  FillRuns(WwvbLo(station_bits_wwvb(utc_timestamp, cfg_dut1)), 0, 60, 0, 0)

(***************************************************************************)
(* info->update_cb: the writes one update makes and the bitmap they leave  *)
(***************************************************************************)
UpdateRuns(id, utc_timestamp, cfg_dut1) ==
  CASE id = "BPC" -> station_runs_bpc(utc_timestamp)
    [] id = "DCF77" -> station_runs_dcf77(utc_timestamp)
    [] id \in {"JJY", "JJY60"} -> station_runs_jjy(utc_timestamp)
    [] id = "MSF" -> station_runs_msf(utc_timestamp, cfg_dut1)
    [] id = "WWVB" -> station_runs_wwvb(utc_timestamp, cfg_dut1)

update_cb(id, utc_timestamp, cfg_dut1, xmit_level) ==
  XmitApply(xmit_level, UpdateRuns(id, utc_timestamp, cfg_dut1))

(***************************************************************************)
(* State.  st is the tsig_station_t context and h what an observer of the  *)
(* callback records about it; enc, osc and alsa are the states of the      *)
(* encoder, oscillator and ALSA loop when each is exercised on its own,    *)
(* call is a call of one of the library's functions with its arguments and *)
(* result, and host is the state of main.                                  *)
(***************************************************************************)
VARIABLES st, h, enc, osc, alsa, call, host

vars == <<st, h, enc, osc, alsa, call, host>>

Idle == [pc |-> "idle"]

XmitZero == [b \in 0 .. (TSIG_STATION_TICKS_MIN \div 8) - 1 |-> 0]

(***************************************************************************)
(* The encoders on their own: a context is constructed for a station and   *)
(* a dut1, then update_cb runs for consecutive minutes.                    *)
(***************************************************************************)
MaxEncMinutes == 3

\* 2024-02-29, 2025-03-29, 2025-03-30, 2025-10-25, 2025-10-26, 2099-12-31
EncDays == {19782, 20176, 20177, 20386, 20387, 47481}

\* 00:57, 06:13, 12:43, 23:58
EncStartMinutes == {57, 373, 763, 1438}

EncDut1 == {-999, 0, 350}

StationBits(id, utc_timestamp, cfg_dut1) ==
  CASE id = "BPC" -> station_slots_bpc(utc_timestamp)
    [] id = "DCF77" -> station_bits_dcf77(utc_timestamp)
    [] id \in {"JJY", "JJY60"} -> station_bits_jjy(utc_timestamp)
    [] id = "MSF" -> station_bits_msf(utc_timestamp, cfg_dut1)
    [] id = "WWVB" -> station_bits_wwvb(utc_timestamp, cfg_dut1)

\* the context once the runs of one update have been written
EncWritten(e, t, runs) ==
  [e EXCEPT !.calls = @ + 1, !.utc_timestamp = t,
            !.bits = StationBits(e.id, t, e.dut1),
            !.xmit_level = XmitApply(e.xmit_level, runs),
            !.missed = XmitMissed(runs), !.stray = XmitStray(runs)]

\* info->update_cb(station, t)
EncAfter(e, t) == EncWritten(e, t, UpdateRuns(e.id, t, e.dut1))

EncInit ==
  /\ enc \in [ pc : {"enc"}, id : StationIds, dut1 : EncDut1, calls : {0},
               utc_timestamp : {MsZero}, bits : {<< >>},
               xmit_level : {XmitZero}, missed : {{}}, stray : {{}} ]
  /\ st = Idle /\ h = Idle /\ osc = Idle /\ alsa = Idle
  /\ call = Idle /\ host = Idle

\* info->update_cb(station, timestamp) for the first minute of a run
EncFirstUpdate ==
  /\ enc.pc = "enc" /\ enc.calls = 0
  /\ \E d \in EncDays, m \in EncStartMinutes :
       enc' = EncAfter(enc, Ms64(d, m * datetime_msecs_min))
  /\ UNCHANGED <<st, h, osc, alsa, call, host>>

\* info->update_cb(station, timestamp) for the minute that follows
EncNextUpdate ==
  /\ enc.pc = "enc" /\ enc.calls >= 1 /\ enc.calls < MaxEncMinutes
  /\ enc' = EncAfter(enc, MsAdd(enc.utc_timestamp, station_msecs_min))
  /\ UNCHANGED <<st, h, osc, alsa, call, host>>

EncNext == EncFirstUpdate \/ EncNextUpdate

SpecEnc == EncInit /\ [][EncNext]_vars

(***************************************************************************)
(* Reading a frame back, and the civil time it is expected to carry.       *)
(***************************************************************************)
Bit01(b) == IF b # 0 THEN 1 ELSE 0

\* the number whose bit k (least significant first) is at bits[lo + k]
LsbDecode(bits, lo, n) ==
  LET w == [k \in 0 .. 3 |-> IF k < n THEN Bit01(bits[lo + k]) * 2 ^ k ELSE 0]
  IN  w[0] + w[1] + w[2] + w[3]

\* the number whose bit k (most significant first) is at bits[lo + k]
MsbDecode(bits, lo, n) ==
  LET w == [k \in 0 .. 3 |-> IF k < n THEN Bit01(bits[lo + k]) * 2 ^ (n - 1 - k) ELSE 0]
  IN  w[0] + w[1] + w[2] + w[3]

DecodeDcf77(bits) ==
  [ min |-> LsbDecode(bits, 21, 4) + 10 * LsbDecode(bits, 25, 3),
    hour |-> LsbDecode(bits, 29, 4) + 10 * LsbDecode(bits, 33, 2),
    day |-> LsbDecode(bits, 36, 4) + 10 * LsbDecode(bits, 40, 2),
    dow |-> LsbDecode(bits, 42, 3) % 7,
    mon |-> LsbDecode(bits, 45, 4) + 10 * LsbDecode(bits, 49, 1),
    year |-> LsbDecode(bits, 50, 4) + 10 * LsbDecode(bits, 54, 4),
    summer |-> bits[17] # 0 /\ bits[18] = 0 ]

DecodeMsf(bits) ==
  [ min |-> 10 * MsbDecode(bits, 45, 3) + MsbDecode(bits, 48, 4),
    hour |-> 10 * MsbDecode(bits, 39, 2) + MsbDecode(bits, 41, 4),
    day |-> 10 * MsbDecode(bits, 30, 2) + MsbDecode(bits, 32, 4),
    dow |-> MsbDecode(bits, 36, 3),
    mon |-> 10 * MsbDecode(bits, 25, 1) + MsbDecode(bits, 26, 4),
    year |-> 10 * MsbDecode(bits, 17, 4) + MsbDecode(bits, 21, 4),
    summer |-> bits[58] # 0 ]

\* the last Sunday of the 31-day month that the UTC date u lies in
RefLastSunday(u) == CHOOSE d \in 25 .. 31 : (u.dow + 35 + d - u.day) % 7 = 0

\* European summer time runs from 01:00 UTC on the last Sunday of March
\* to 01:00 UTC on the last Sunday of October
RefEuSummer(u) ==
  CASE u.mon \in 4 .. 9 -> TRUE
    [] u.mon = 3 -> u.day > RefLastSunday(u) \/ (u.day = RefLastSunday(u) /\ u.hour >= 1)
    [] u.mon = 10 -> u.day < RefLastSunday(u) \/ (u.day = RefLastSunday(u) /\ u.hour < 1)
    [] OTHER -> FALSE

\* civil time of station id one minute after UTC minute m
RefCivil(id, m) ==
  LET t1 == MsAdd(m, datetime_msecs_min)
      summer == RefEuSummer(tsig_datetime_parse_timestamp(t1))
      off == IF summer THEN station_info[id].utc_st_offset ELSE station_info[id].utc_offset
      c == tsig_datetime_parse_timestamp(MsAdd(t1, off))
  IN  [ min |-> c.min, hour |-> c.hour, day |-> c.day, dow |-> c.dow,
        mon |-> c.mon, year |-> c.year % 100, summer |-> summer ]

EncFrame == IF enc.id = "DCF77" THEN DecodeDcf77(enc.bits) ELSE DecodeMsf(enc.bits)

EncUpdated == enc.pc = "enc" /\ enc.calls >= 1

EncUtc == tsig_datetime_parse_timestamp(enc.utc_timestamp)

\* C7: the DCF77 or MSF frame generated for UTC minute M carries the calendar
\* fields and the summer-time flag of the civil time at M + 1 minute, under the
\* offset in force at M + 1 minute; on the last Sunday of March or October the
\* 00:59 frame carries the new zone and the 00:58 frame the old one.
C7_NextMinuteCivilTime ==
  (EncUpdated /\ enc.id \in {"DCF77", "MSF"}) =>
    /\ EncFrame = RefCivil(enc.id, enc.utc_timestamp)
    /\ (EncUtc.mon \in {3, 10} /\ EncUtc.day = RefLastSunday(EncUtc) /\ EncUtc.hour = 0) =>
         /\ EncUtc.min = 59 => (EncFrame.summer <=> EncUtc.mon = 3)
         /\ EncUtc.min = 58 => (EncFrame.summer <=> EncUtc.mon = 10)

\* a DCF77 frame for 00:59 UTC on 2025-03-30 that reads 03:00 CEST
C7_Witness ==
  /\ EncUpdated /\ enc.id = "DCF77"
  /\ enc.utc_timestamp = Ms64(20177, 59 * datetime_msecs_min)
  /\ EncFrame.summer /\ EncFrame.hour = 3 /\ EncFrame.min = 0 /\ EncFrame.day = 30

EncLowTicks(s) ==
  Cardinality({k \in (s * TSIG_STATION_TICKS_SEC) .. ((s + 1) * TSIG_STATION_TICKS_SEC - 1) :
                 XmitBit(enc.xmit_level, k) = 0})

EncHighTicks(s) ==
  Cardinality({k \in (s * TSIG_STATION_TICKS_SEC) .. ((s + 1) * TSIG_STATION_TICKS_SEC - 1) :
                 XmitBit(enc.xmit_level, k) = 1})

\* C8: one update call of any station assigns every tick bit 0..1199 of
\* xmit_level and none outside, and in each of the 60 seconds the low and the
\* high ticks together number 20 (1000 ms).
C8_AllTicksWritten ==
  EncUpdated =>
    /\ enc.missed = {} /\ enc.stray = {}
    /\ \A s \in 0 .. 59 : EncLowTicks(s) + EncHighTicks(s) = TSIG_STATION_TICKS_SEC

\* a JJY announcement minute written over the bits of the minute before it
C8_Witness ==
  /\ EncUpdated /\ enc.calls >= 2 /\ enc.id = "JJY"
  /\ EncUtc.min = station_jjy_morse_min2
  /\ XmitBit(enc.xmit_level, station_jjy_morse_tick) = 1
  /\ XmitBit(enc.xmit_level, station_jjy_morse_tick - 1) = 0

\* C9: in every BPC minute each second carries SYNC or a slot value in 0..3,
\* and its low portion lasts 0 ms (SYNC) or 100 * (value + 1) ms.
C9_SlotDurations ==
  (EncUpdated /\ enc.id = "BPC") =>
    \A s \in 0 .. 59 :
      \/ enc.bits[s] = station_sync_marker /\ EncLowTicks(s) = 0
      \/ /\ enc.bits[s] \in 0 .. 3
         /\ EncLowTicks(s) * TSIG_STATION_MSECS_TICK = 100 * (enc.bits[s] + 1)

\* the bit that slot s of a DCF77 frame puts on the air: low for 200 ms is 1
Dcf77Sent(s) == Bool01(EncLowTicks(s) * TSIG_STATION_MSECS_TICK = 200)

\* bit A of MSF slot s in 17..51: low for 200 ms is 1
MsfSentA(s) == Bool01(EncLowTicks(s) * TSIG_STATION_MSECS_TICK = 200)

\* bit B of MSF slot s in 53..58, whose bit A is always 1: low for 300 ms is 1
MsfSentB(s) == Bool01(EncLowTicks(s) * TSIG_STATION_MSECS_TICK = 300)

RECURSIVE Dcf77Ones(_, _)
Dcf77Ones(lo, hi) == IF lo > hi THEN 0 ELSE Dcf77Sent(lo) + Dcf77Ones(lo + 1, hi)

RECURSIVE MsfOnes(_, _)
MsfOnes(lo, hi) == IF lo > hi THEN 0 ELSE MsfSentA(lo) + MsfOnes(lo + 1, hi)

\* C20: in every DCF77 frame the transmitted bits of slots 21..28, of slots
\* 29..35 and of slots 36..58 each hold an even number of ones, and in every
\* MSF frame the transmitted bits of slots 17..24, 25..35, 36..38 and 39..51
\* together with parity bit 54, 55, 56 and 57 respectively each hold an odd
\* number of ones; a slot counts as the one bit its low period transmits.
C20_ParityAsTransmitted ==
  /\ (EncUpdated /\ enc.id = "DCF77") =>
       /\ Dcf77Ones(21, 28) % 2 = 0
       /\ Dcf77Ones(29, 35) % 2 = 0
       /\ Dcf77Ones(36, 58) % 2 = 0
       /\ \A s \in 21 .. 58 : Dcf77Sent(s) = Bool01(enc.bits[s] # 0)
  /\ (EncUpdated /\ enc.id = "MSF") =>
       /\ (MsfOnes(17, 24) + MsfSentB(54)) % 2 = 1
       /\ (MsfOnes(25, 35) + MsfSentB(55)) % 2 = 1
       /\ (MsfOnes(36, 38) + MsfSentB(56)) % 2 = 1
       /\ (MsfOnes(39, 51) + MsfSentB(57)) % 2 = 1
       /\ \A s \in 17 .. 51 : MsfSentA(s) = Bool01(enc.bits[s] # 0)
       /\ \A s \in 54 .. 57 : MsfSentB(s) = Bool01(enc.bits[s] # 0)

\* a DCF77 frame whose minute field holds the byte 4 in slot 23 and an odd
\* number of ones, so that parity bit 28 is transmitted as 1
C20_Witness ==
  /\ EncUpdated /\ enc.id = "DCF77"
  /\ enc.bits[23] = 4 /\ enc.bits[28] = 1 /\ Dcf77Sent(28) = 1
  /\ Dcf77Ones(21, 27) % 2 = 1

\* an MSF frame whose year field holds a byte above 1 and whose parity bit 54 is 0
C20_WitnessMsf ==
  /\ EncUpdated /\ enc.id = "MSF"
  /\ \E s \in 17 .. 24 : enc.bits[s] > 1
  /\ enc.bits[54] = 0 /\ MsfSentB(54) = 0 /\ MsfOnes(17, 24) % 2 = 1

\* the callsign sent twice, one character per element, " " between the
\* characters of a word and "/" between the words
RefCallsign ==
  << ".", "-", "-", "-", " ", ".", "-", "-", "-", " ", "-", ".", "-", "-", "/",
     ".", "-", "-", "-", " ", ".", "-", "-", "-", " ", "-", ".", "-", "-" >>

\* milliseconds of silence after an element that is followed by rest
RefMorseGap(rest) ==
  IF rest = << >> THEN 0
  ELSE IF Head(rest) = "/" THEN 500 ELSE IF Head(rest) = " " THEN 300 ELSE 50

RefMorseLen(sym) == IF sym = "." THEN 100 ELSE 250

\* the pulses <<start, end>> in milliseconds of the code syms keyed from at
RECURSIVE RefMorsePulses(_, _)
RefMorsePulses(at, syms) ==
  IF syms = << >> THEN {}
  ELSE IF Head(syms) \in {" ", "/"} THEN RefMorsePulses(at, Tail(syms))
  ELSE {<<at, at + RefMorseLen(Head(syms))>>}
         \cup RefMorsePulses(at + RefMorseLen(Head(syms)) + RefMorseGap(Tail(syms)),
                             Tail(syms))

RefCallsignPulses == RefMorsePulses(40550, RefCallsign)

\* tick k of the minute lies inside a pulse of the callsign
RefMorseHigh(k) ==
  \E p \in RefCallsignPulses :
    p[1] <= k * TSIG_STATION_MSECS_TICK /\ k * TSIG_STATION_MSECS_TICK < p[2]

\* seconds 40..48 of the bitmap hold the callsign and nothing else
EncHoldsCallsign ==
  \A k \in (40 * TSIG_STATION_TICKS_SEC) .. (49 * TSIG_STATION_TICKS_SEC - 1) :
    XmitBit(enc.xmit_level, k) = Bool01(RefMorseHigh(k))

EncJjyMin == station_datetime_jjy(enc.utc_timestamp).min

\* C21: the JJY/JJY60 bitmap of local minutes 15 and 45, and of no other
\* minute, is low from 40.000 s to 49.000 s except for the pulses of the
\* callsign .--- .--- -.-- sent twice with dit 100 ms, dah 250 ms and gaps of
\* 50, 300 and 500 ms; the first pulse starts at 40.550 s, the last ends at
\* 48.250 s, and no pulse reaches the marker at 49 s.
C21_MorseCallsign ==
  (EncUpdated /\ enc.id \in {"JJY", "JJY60"}) =>
    /\ EncHoldsCallsign <=> EncJjyMin \in {15, 45}
    /\ EncJjyMin \in {15, 45} =>
         /\ \A p \in RefCallsignPulses : 40550 <= p[1] /\ p[2] <= 48250
         /\ \E p \in RefCallsignPulses : p[1] = 40550
         /\ \E p \in RefCallsignPulses : p[2] = 48250
         /\ XmitBit(enc.xmit_level, 49 * TSIG_STATION_TICKS_SEC) = 1
         /\ \A k \in 965 .. 979 : XmitBit(enc.xmit_level, k) = 0

\* a JJY bitmap for minute 15 written over the bitmap of minute 14: low at
\* 40.000 s, high from 40.550 s, high up to 48.250 s and low after it
C21_Witness ==
  /\ EncUpdated /\ enc.id = "JJY" /\ enc.calls >= 2 /\ EncJjyMin = 15
  /\ XmitBit(enc.xmit_level, 800) = 0 /\ XmitBit(enc.xmit_level, 810) = 0
  /\ XmitBit(enc.xmit_level, 811) = 1
  /\ XmitBit(enc.xmit_level, 964) = 1 /\ XmitBit(enc.xmit_level, 965) = 0

\* a JJY60 bitmap for minute 45
C21_WitnessJjy60 ==
  /\ EncUpdated /\ enc.id = "JJY60" /\ EncJjyMin = 45 /\ EncHoldsCallsign

(***************************************************************************)
(* iir.c.  A double holding a sine is kept as the numerator of its angle:  *)
(* [num |-> n, steps |-> k] is sin(2 * pi * n / period) as obtained after  *)
(* k steps of the recurrence (k = 0: computed by iir_sin).                 *)
(***************************************************************************)
RECURSIVE iir_gcd(_, _)
iir_gcd(a, b) == IF b = 0 THEN a ELSE iir_gcd(b, a % b)

\* a % b on C ints, which truncates toward zero
CRem(a, b) == IF a >= 0 THEN a % b ELSE -((-a) % b)

\* (a * b) % m for 0 <= a < m < 2^19 and b >= 0, in 32-bit steps
RECURSIVE MulMod(_, _, _)
MulMod(a, b, m) ==
  IF b < 4096 THEN (a * b) % m
  ELSE (((MulMod(a, b \div 4096, m) * 4096) % m) + ((a * (b % 4096)) % m)) % m

\* ((int64_t)a * b) % m on C ints, |a| < m
CMulRem(a, b, m) == IF a >= 0 THEN MulMod(a, b, m) ELSE -MulMod(-a, b, m)

Sine(n) == [num |-> n, steps |-> 0]

\* a * y1 - y0 with a = 2 * cos(2 * pi * phase_delta / period)
IirRecurrence(y1, y0, period) ==
  [num |-> (2 * y1.num - y0.num) % period, steps |-> y1.steps + 1]

\* phase += phase_delta; if (phase >= phase_base) phase -= phase_base
IirNextPhase(phase, phase_delta, phase_base) ==
  IF phase + phase_delta >= phase_base THEN phase + phase_delta - phase_base
  ELSE phase + phase_delta

\* the second half of tsig_iir_init: phase is already reduced modulo the period
IirPrime(iir, phase_delta, phase_base, phase) ==
  [iir EXCEPT !.period = phase_base, !.delta = phase_delta, !.phase = phase,
              !.init_y0 = Sine(CMulRem(phase, phase_delta, phase_base)),
              !.init_y1 = Sine(IirNextPhase(CMulRem(phase, phase_delta, phase_base),
                                            phase_delta, phase_base)),
              !.sample = 0]

tsig_iir_init_gcd(iir, freq, rate, phase, gcd) ==
  IirPrime([iir EXCEPT !.freq = freq, !.rate = rate],
           freq \div gcd, rate \div gcd, CRem(phase, rate \div gcd))

tsig_iir_init(iir, freq, rate, phase) ==
  tsig_iir_init_gcd(iir, freq, rate, phase, iir_gcd(freq, rate))

\* a reset that never reloads the seeds
IirResetNever(iir) == iir

\* if (!iir->sample) { y0 = init_y0; y1 = init_y1; }
IirReset(iir) ==
  IF iir.sample = 0 THEN [iir EXCEPT !.y0 = iir.init_y0, !.y1 = iir.init_y1] ELSE iir

\* the rest of tsig_iir_next; ret is the value returned
IirAdvance(iir) ==
  IF iir.sample + 2 < iir.period
  THEN [iir EXCEPT !.ret = iir.y0, !.y0 = iir.y1,
                   !.y1 = IirRecurrence(iir.y1, iir.y0, iir.period), !.sample = @ + 1]
  ELSE IF iir.sample + 1 < iir.period
  THEN [iir EXCEPT !.ret = iir.y0, !.y0 = iir.y1, !.sample = @ + 1]
  ELSE [iir EXCEPT !.ret = iir.y0, !.sample = 0]

tsig_iir_next(iir) == IirAdvance(IirReset(iir))

\* the value tsig_iir_next returns at sample index k of a period
IirY(iir, k) ==
  IF k = 0 THEN iir.init_y0
  ELSE IF k = 1 THEN iir.init_y1
  ELSE [num |-> (iir.init_y0.num + MulMod(k, iir.delta, iir.period)) % iir.period,
        steps |-> k - 1]

\* the oscillator after a call of tsig_iir_next made at sample index j
IirAtLast(iir, j) ==
  [iir EXCEPT !.ret = IirY(iir, j),
              !.sample = IF j + 1 < iir.period THEN j + 1 ELSE 0,
              !.y0 = IirY(iir, IF j + 2 < iir.period THEN j + 1 ELSE iir.period - 1),
              !.y1 = IirY(iir, IF j + 2 < iir.period THEN j + 2 ELSE iir.period - 1)]

RECURSIVE IirIterate(_, _)
IirIterate(iir, n) == IF n = 0 THEN iir ELSE IirIterate(tsig_iir_next(iir), n - 1)

\* n consecutive calls of tsig_iir_next.  With a period below 3 the state
\* repeats every two calls; otherwise the state after a call depends only on
\* the sample index the call was made at.
IirNextN(iir, n) ==
  IF n = 0 THEN iir
  ELSE IF iir.period < 3 THEN IirIterate(iir, 2 - (n % 2))
  ELSE IF n < 3 THEN IirIterate(iir, n)
  ELSE IirAtLast(iir, (iir.sample + n - 1) % iir.period)

(***************************************************************************)
(* The oscillator on its own: one init, then calls of next.                *)
(***************************************************************************)
MaxIirPeriods == 2

IirFreqs == {0, 1000, 20000, 24000}

IirRates == {44100, 48000}

IirPhases == {-634222343, -5, 0, 7, 100000}

\* tsig_iir_t inside a zeroed tsig_station_t; rets holds the values returned
\* by the calls of tsig_iir_next made on the oscillator on its own
IirZero ==
  [ pc |-> "new", freq |-> 0, rate |-> 0, phase |-> 0, period |-> 0, delta |-> 0,
    init_y0 |-> Sine(0), init_y1 |-> Sine(0), sample |-> 0,
    y0 |-> Sine(0), y1 |-> Sine(0), ret |-> Sine(0), calls |-> 0,
    rets |-> << >> ]

IirInit ==
  /\ osc = IirZero /\ st = Idle /\ h = Idle /\ enc = Idle /\ alsa = Idle
  /\ call = Idle /\ host = Idle

IirDoInit ==
  /\ osc.pc = "new"
  /\ \E freq \in IirFreqs, rate \in IirRates, phase \in IirPhases :
       /\ 2 * freq <= rate
       /\ osc' = [tsig_iir_init(osc, freq, rate, phase) EXCEPT !.pc = "osc"]
  /\ UNCHANGED <<st, h, enc, alsa, call, host>>

IirDoNext ==
  /\ osc.pc = "osc"
  /\ osc.calls < MaxIirPeriods * osc.period + 1
  /\ osc' = [tsig_iir_next(osc) EXCEPT !.calls = @ + 1,
                                       !.rets = Append(@, tsig_iir_next(osc).ret)]
  /\ UNCHANGED <<st, h, enc, alsa, call, host>>

IirNext == IirDoInit \/ IirDoNext

SpecIir == IirInit /\ [][IirNext]_vars

\* sin(2 * pi * a.num / period) = sin(2 * pi * b.num / period)
SameSine(a, b, period) ==
  \/ (a.num - b.num) % period = 0
  \/ (2 * (a.num + b.num) - period) % (2 * period) = 0

\* C10 as stated: after exactly period calls of next since init, the running
\* pair (y0, y1) equals the seeds (init_y0, init_y1).
C10_PairEqualsSeeds ==
  (osc.pc = "osc" /\ osc.calls = osc.period) =>
    /\ SameSine(osc.y0, osc.init_y0, osc.period)
    /\ SameSine(osc.y1, osc.init_y1, osc.period)

\* C10 amended: after a whole number of periods of next calls the sample
\* index is 0 and the call that follows returns init_y0, the seeds being
\* reloaded at the start of that call; the running pair left by the last call
\* of a period is (y[period - 1], y[period - 1]), which is the seeds only when
\* the period is 1.
C10_LazyReset ==
  (osc.pc = "osc" /\ osc.calls >= 1 /\ 2 * osc.freq < osc.rate) =>
    /\ osc.calls % osc.period = 0 =>
         /\ osc.sample = 0
         /\ osc.y0 = osc.y1
         /\ SameSine(osc.y0, Sine(osc.init_y0.num - osc.delta), osc.period)
         /\ osc.period = 1 => (osc.y0 = osc.init_y0 /\ osc.y1 = osc.init_y1)
         /\ osc.period > 1 => ~(/\ SameSine(osc.y0, osc.init_y0, osc.period)
                                /\ SameSine(osc.y1, osc.init_y1, osc.period))
    /\ (osc.calls - 1) % osc.period = 0 => osc.ret = osc.init_y0

\* 20000 Hz at 48000 Hz: twelve calls made, the pair is y[11] twice
C10_Witness ==
  /\ osc.pc = "osc" /\ osc.freq = 20000 /\ osc.rate = 48000 /\ osc.phase = 0
  /\ osc.period = 12 /\ osc.calls = 12 /\ osc.sample = 0
  /\ osc.y0 = osc.y1 /\ osc.y0.num = 7 /\ osc.init_y1.num = 5

\* C11: for every frequency, rate and phase, periods of 1 and 2 samples
\* included, the sample index stays below the period, it is 0 exactly before
\* the calls that begin a period, such a call starts from the seeds and
\* returns init_y0, and the value returned by call n + period is the value
\* returned by call n.
C11_PeriodRepeats ==
  osc.pc = "osc" =>
    /\ osc.sample < osc.period
    /\ osc.sample = 0 <=> osc.calls % osc.period = 0
    /\ osc.sample = 0 =>
         /\ IirReset(osc).y0 = osc.init_y0 /\ IirReset(osc).y1 = osc.init_y1
         /\ tsig_iir_next(osc).ret = osc.init_y0
    /\ (osc.calls >= 1 /\ (osc.calls - 1) % osc.period = 0) => osc.ret = osc.init_y0
    /\ osc.calls > osc.period => osc.rets[osc.calls] = osc.rets[osc.calls - osc.period]

\* 24000 Hz at 48000 Hz, a period of 2: the fifth call has begun the third
\* period and returned the first seed again
C11_Witness ==
  /\ osc.pc = "osc" /\ osc.freq = 24000 /\ osc.rate = 48000 /\ osc.period = 2
  /\ osc.calls = 5 /\ osc.sample = 1 /\ Len(osc.rets) = 5
  /\ osc.rets[5] = osc.init_y0 /\ osc.rets[4] = osc.init_y1

\* 0 Hz, a period of 1: every call returns the first seed
C11_WitnessPeriodOne ==
  /\ osc.pc = "osc" /\ osc.freq = 0 /\ osc.period = 1 /\ osc.calls = 3
  /\ osc.sample = 0 /\ osc.rets = <<osc.init_y0, osc.init_y0, osc.init_y0>>

(***************************************************************************)
(* alsa.c: tsig_alsa_loop and the signal handler it installs.  pc is the   *)
(* point the loop has reached; sigs counts the signals delivered since the *)
(* handler was installed, cbs the sample callbacks made, and cb_after      *)
(* records a callback made after a signal had been delivered.              *)
(***************************************************************************)
MaxAlsaCallbacks == 3

MaxAlsaSignals == 2

AlsaPeriodSizes == {1, 2, 3}

\* alsa_loop_wait results: 0, -EINTR, -EIO, and -EPIPE or -ESTRPIPE
AlsaWaitResults == {"ok", "EINTR", "EIO", "xrun"}

AlsaInit ==
  /\ alsa \in [ pc : {"top"}, period_size : AlsaPeriodSizes, is_running : {FALSE},
                remain : {0}, alsa_got_signal : {0}, intr : {FALSE}, err : {"none"},
                sigs : {0}, cbs : {0}, cb_after : {FALSE} ]
  /\ st = Idle /\ h = Idle /\ enc = Idle /\ osc = Idle
  /\ call = Idle /\ host = Idle

\* alsa_signal_handler, run on SIGINT, SIGTERM or SIGALRM; a signal that
\* arrives inside poll also makes poll fail with EINTR
alsa_signal_handler(a, in_poll) ==
  [a EXCEPT !.alsa_got_signal = 1, !.intr = in_poll, !.sigs = @ + 1]

AlsaSignal ==
  /\ alsa.pc \in {"top", "wait_top", "cb", "write", "wait_inner"}
  /\ alsa.sigs < MaxAlsaSignals
  /\ \E in_poll \in BOOLEAN :
       /\ in_poll => alsa.pc \in {"wait_top", "wait_inner"}
       /\ alsa' = alsa_signal_handler(alsa, in_poll)
  /\ UNCHANGED <<st, h, enc, osc, call, host>>

\* for (;;) { if (is_running) err = alsa_loop_wait(...)
AlsaLoopTop ==
  /\ alsa.pc = "top"
  /\ alsa' = [alsa EXCEPT !.pc = IF alsa.is_running THEN "wait_top" ELSE "cb"]
  /\ UNCHANGED <<st, h, enc, osc, call, host>>

\* what alsa_loop_wait returns: -EINTR only when poll failed with EINTR and
\* alsa_got_signal is set, otherwise whatever revents and the pcm state say
alsa_loop_wait(a) ==
  IF a.intr /\ a.alsa_got_signal = 1 THEN {"EINTR"} ELSE {"ok", "EIO", "xrun"}

\* the loop's reaction to the result of alsa_loop_wait
AlsaAfterWait(a, res, next_pc) ==
  CASE res = "EINTR" -> [a EXCEPT !.pc = "done", !.err = "none", !.intr = FALSE,
                                   !.alsa_got_signal = 0]
    [] res = "EIO" -> [a EXCEPT !.pc = "done", !.err = "EIO", !.intr = FALSE]
    [] res = "xrun" -> [a EXCEPT !.pc = next_pc, !.is_running = FALSE, !.intr = FALSE]
    [] OTHER -> [a EXCEPT !.pc = next_pc, !.intr = FALSE]

AlsaWaitTop ==
  /\ alsa.pc = "wait_top"
  /\ \E res \in alsa_loop_wait(alsa) : alsa' = AlsaAfterWait(alsa, res, "cb")
  /\ UNCHANGED <<st, h, enc, osc, call, host>>

AlsaWaitInner ==
  /\ alsa.pc = "wait_inner"
  /\ \E res \in alsa_loop_wait(alsa) : alsa' = AlsaAfterWait(alsa, res, "write")
  /\ UNCHANGED <<st, h, enc, osc, call, host>>

\* cb(cb_data, cb_buf, alsa->period_size); remain = alsa->period_size
AlsaCallback ==
  /\ alsa.pc = "cb"
  /\ alsa.cbs < MaxAlsaCallbacks
  /\ alsa' = [alsa EXCEPT !.pc = "write", !.remain = alsa.period_size, !.cbs = @ + 1,
                          !.cb_after = @ \/ alsa.sigs > 0]
  /\ UNCHANGED <<st, h, enc, osc, call, host>>

\* err = alsa_snd_pcm_writei(pcm, ptr, remain) and what follows it
AlsaWriteFailed ==
  /\ alsa.pc = "write"
  /\ \E err \in {"EBADFD", "xrun"} :
       alsa' = IF err = "EBADFD" THEN [alsa EXCEPT !.pc = "done", !.err = "EBADFD"]
               ELSE [alsa EXCEPT !.pc = "top", !.is_running = FALSE]
  /\ UNCHANGED <<st, h, enc, osc, call, host>>

AlsaWritten ==
  /\ alsa.pc = "write"
  /\ \E written \in 1 .. alsa.remain, state_running \in BOOLEAN :
       alsa' = [alsa EXCEPT !.is_running = @ \/ state_running,
                            !.remain = @ - written,
                            !.pc = IF alsa.remain = written THEN "top" ELSE "wait_inner"]
  /\ UNCHANGED <<st, h, enc, osc, call, host>>

AlsaNext ==
  \/ AlsaSignal \/ AlsaLoopTop \/ AlsaWaitTop \/ AlsaWaitInner
  \/ AlsaCallback \/ AlsaWriteFailed \/ AlsaWritten

SpecAlsa == AlsaInit /\ [][AlsaNext]_vars

\* C6: once SIGINT, SIGTERM or SIGALRM has been delivered at any point of the
\* running loop, the sample callback is not invoked again.
C6_NoCallbackAfterSignal == alsa.pc # "idle" => ~alsa.cb_after

\* the signal flag is set, no poll was interrupted, and the loop goes on
C6_SignalLost ==
  /\ alsa.pc = "write" /\ alsa.sigs = 1 /\ alsa.alsa_got_signal = 1
  /\ ~alsa.intr /\ alsa.cb_after

(***************************************************************************)
(* station.c: the scheduler.  A uint64_t timestamp is kept as the signed   *)
(* count it is in two's complement, so that UINT64_MAX is -1 and a sum     *)
(* that wraps below zero is negative.  Gains are kept in millionths.       *)
(***************************************************************************)
station_first_run == Ms64(0, -1)

TSIG_STATION_BASE_SYSTEM == Ms64(0, -1)

\* station_lerp_rate in thousandths, station_lerp_min_delta in millionths
station_lerp_rate == 15

station_lerp_min_delta == 5000

GainOne == 1000000

\* (a * b) mod 2^32 in 16-bit halves, for a < 2^16 and b < 2^31
U32MulX(a, b) ==
  (a % 256) * (b % 65536) + (((a \div 256) * (b % 65536)) % 256) * 256

U32MulLo(a, b) == U32MulX(a, b) % 65536

U32MulHi(a, b) ==
  (U32MulX(a, b) \div 65536 + ((a \div 256) * (b % 65536)) \div 256
     + a * (b \div 65536)) % 65536

\* (hi * 2^16 + lo) / 1000
U32Div1000(hi, lo) == (hi \div 1000) * 65536 + ((hi % 1000) * 65536 + lo) \div 1000

\* uint32_t a * b / 1000
U32MulDiv1000(a, b) == U32Div1000(U32MulHi(a, b), U32MulLo(a, b))

station_lerp(target_gain, gain) ==
  IF (IF target_gain > gain THEN target_gain - gain ELSE gain - target_gain)
       > station_lerp_min_delta
  THEN ((1000 - station_lerp_rate) * gain + station_lerp_rate * target_gain) \div 1000
  ELSE target_gain

Lerp8(t, g) ==
  station_lerp(t, station_lerp(t, station_lerp(t, station_lerp(t,
    station_lerp(t, station_lerp(t, station_lerp(t, station_lerp(t, g))))))))

\* station_lerp applied n times toward the same target
RECURSIVE LerpN(_, _, _)
LerpN(t, g, n) ==
  IF n = 0 \/ g = t THEN g
  ELSE IF n >= 8 THEN LerpN(t, Lerp8(t, g), n - 8)
  ELSE LerpN(t, station_lerp(t, g), n - 1)

\* a search that also tries the even subharmonics
RECURSIVE StationSubharmonicEven(_, _, _)
StationSubharmonicEven(freq, limit, subharmonic) ==
  IF freq \div subharmonic > limit
  THEN StationSubharmonicEven(freq, limit, subharmonic + 1)
  ELSE subharmonic

RECURSIVE StationSubharmonic(_, _, _)
StationSubharmonic(freq, limit, subharmonic) ==
  IF freq \div subharmonic > limit
  THEN StationSubharmonic(freq, limit, subharmonic + 2)
  ELSE subharmonic

\* the context tsig_station_init leaves; xmit_bit, xmit_i and is_xmit_high are
\* the locals of the last callback, out the first samples it produced (oscillator value and
\* gain), rolls the timestamps it handed to update_cb when the tick rolled
\* over, resynced whether it took the resync branch
tsig_station_init(cfg) ==
  [ station |-> cfg.station, base |-> cfg.base, offset |-> cfg.offset,
    dut1 |-> cfg.dut1, smooth |-> cfg.smooth, rate |-> cfg.rate,
    xmit_level |-> XmitZero, base_offset |-> MsZero, timestamp |-> MsZero,
    next_timestamp |-> station_first_run,
    samples_tick |-> (cfg.rate * TSIG_STATION_MSECS_TICK) \div 1000,
    samples |-> 0, next_tick |-> 0, tick |-> 0, is_morse |-> FALSE,
    iir |-> IirZero,
    freq |-> station_info[cfg.station].freq \div
               StationSubharmonic(station_info[cfg.station].freq,
                                  IF cfg.ultrasound THEN cfg.rate \div 2
                                  ELSE station_ultrasound_threshold, 1),
    gain |-> 0,
    xmit_bit |-> 1, xmit_i |-> 0, is_xmit_high |-> FALSE,
    out |-> << >>, rolls |-> << >>, resynced |-> FALSE ]

tsig_station_set_rate(s, rate) ==
  [s EXCEPT !.rate = rate,
            !.samples_tick = (rate * TSIG_STATION_MSECS_TICK) \div 1000,
            !.next_timestamp = MsZero]

IsJjy(s) == s.station \in {"JJY", "JJY60"}

\* if (expected == station_first_run) station->base_offset = ...
CbFirstRun(s, now) ==
  IF s.next_timestamp = station_first_run
  THEN [s EXCEPT !.base_offset =
          IF s.base # TSIG_STATION_BASE_SYSTEM
          THEN MsAdd(MsMinus(s.base, now), s.offset)
          ELSE Ms64(0, s.offset)]
  ELSE s

\* drift > station_drift_threshold, on uint64_t values
DriftOver(timestamp, expected) ==
  IF (timestamp.d < 0) # (expected.d < 0) THEN TRUE
  ELSE ~MsAbsLeq(MsMinus(timestamp, expected), station_drift_threshold)

\* the resync branch, from "station->timestamp = timestamp" to update_cb
CbResyncAt(s, timestamp, datetime, msecs_since_min) ==
  [s EXCEPT
     !.timestamp = timestamp,
     !.samples = 0,
     !.next_tick = ((TSIG_STATION_MSECS_TICK - (datetime.msec % TSIG_STATION_MSECS_TICK))
                      * s.rate) \div 1000,
     !.tick = msecs_since_min \div TSIG_STATION_MSECS_TICK,
     !.is_morse = /\ IsJjy(s)
                  /\ datetime.min \in {station_jjy_morse_min, station_jjy_morse_min2}
                  /\ station_jjy_morse_tick <= msecs_since_min \div TSIG_STATION_MSECS_TICK
                  /\ msecs_since_min \div TSIG_STATION_MSECS_TICK < station_jjy_morse_end_tick,
     !.iir = tsig_iir_init(s.iir, s.freq, s.rate,
                           -U32MulDiv1000(station_msecs_min - msecs_since_min, s.rate)),
     !.xmit_level = update_cb(s.station, timestamp, s.dut1, s.xmit_level),
     !.resynced = TRUE]

CbResync(s, timestamp, datetime) ==
  CbResyncAt(s, timestamp, datetime, 1000 * datetime.sec + datetime.msec)

\* timestamp += station->base_offset has been done by the caller
CbSyncAt(s, timestamp) ==
  IF DriftOver(timestamp, s.next_timestamp)
  THEN CbResync(s, timestamp, tsig_datetime_parse_timestamp(timestamp))
  ELSE [s EXCEPT !.resynced = FALSE]

CbSync(s, now) == CbSyncAt(s, MsPlus(now, s.base_offset))

\* uint8_t xmit_bit = 1 << (station->tick % CHAR_BIT), and a variant that
\* always starts at bit 0
CbXmitBitZero(tick) == 1

CbXmitBit(tick) == 2 ^ (tick % 8)

CbLocals(s) ==
  [s EXCEPT !.xmit_bit = CbXmitBit(s.tick), !.xmit_i = s.tick \div 8,
            !.out = << >>, !.rolls = << >>]

MaxOutSamples == 50

\* a tick that calls update_cb one tick after the roll
CbTickAtUpdateLate(s, timestamp, tick, min) ==
  [s EXCEPT
     !.next_tick = @ + s.samples_tick,
     !.tick = tick,
     !.xmit_level = IF tick = 1 THEN update_cb(s.station, timestamp, s.dut1, @) ELSE @,
     !.rolls = IF tick = 1 THEN Append(@, timestamp) ELSE @,
     !.is_morse = IF IsJjy(s) /\ min \in {station_jjy_morse_min, station_jjy_morse_min2}
                  THEN IF tick = station_jjy_morse_tick THEN TRUE
                       ELSE IF tick = station_jjy_morse_end_tick THEN FALSE ELSE @
                  ELSE @,
     !.xmit_bit = ((2 * @) % 256) + (@ \div 128),
     !.xmit_i = tick \div 8]

\* a tick that leaves next_tick where it is
CbTickAtNoAdvance(s, timestamp, tick, min) ==
  [s EXCEPT
     !.tick = tick,
     !.xmit_level = IF tick = 0 THEN update_cb(s.station, timestamp, s.dut1, @) ELSE @,
     !.rolls = IF tick = 0 THEN Append(@, timestamp) ELSE @,
     !.is_morse = IF IsJjy(s) /\ min \in {station_jjy_morse_min, station_jjy_morse_min2}
                  THEN IF tick = station_jjy_morse_tick THEN TRUE
                       ELSE IF tick = station_jjy_morse_end_tick THEN FALSE ELSE @
                  ELSE @,
     !.xmit_bit = ((2 * @) % 256) + (@ \div 128),
     !.xmit_i = tick \div 8]

\* a tick that ends the callsign window one second late
CbTickAtMorseLate(s, timestamp, tick, min) ==
  [s EXCEPT
     !.next_tick = @ + s.samples_tick,
     !.tick = tick,
     !.xmit_level = IF tick = 0 THEN update_cb(s.station, timestamp, s.dut1, @) ELSE @,
     !.rolls = IF tick = 0 THEN Append(@, timestamp) ELSE @,
     !.is_morse = IF IsJjy(s) /\ min \in {station_jjy_morse_min, station_jjy_morse_min2}
                  THEN IF tick = station_jjy_morse_tick THEN TRUE
                       ELSE IF tick = station_jjy_morse_end_tick + TSIG_STATION_TICKS_SEC
                       THEN FALSE ELSE @
                  ELSE @,
     !.xmit_bit = ((2 * @) % 256) + (@ \div 128),
     !.xmit_i = tick \div 8]

\* the part of the loop body run when samples == next_tick, for the tick
\* reached and the minute of the hour of the timestamp computed
CbTickAt(s, timestamp, tick, min) ==
  [s EXCEPT
     !.next_tick = @ + s.samples_tick,
     !.tick = tick,
     !.xmit_level = IF tick = 0 THEN update_cb(s.station, timestamp, s.dut1, @) ELSE @,
     !.rolls = IF tick = 0 THEN Append(@, timestamp) ELSE @,
     !.is_morse = IF IsJjy(s) /\ min \in {station_jjy_morse_min, station_jjy_morse_min2}
                  THEN IF tick = station_jjy_morse_tick THEN TRUE
                       ELSE IF tick = station_jjy_morse_end_tick THEN FALSE ELSE @
                  ELSE @,
     !.xmit_bit = ((2 * @) % 256) + (@ \div 128),
     !.xmit_i = tick \div 8]

CbTickOn(s, timestamp) ==
  CbTickAt(s, timestamp, (s.tick + 1) % TSIG_STATION_TICKS_MIN,
           (timestamp.ms % datetime_msecs_hour) \div datetime_msecs_min)

\* timestamp = station->timestamp + station->samples * 1000 / station->rate
CbTick(s) == CbTickOn(s, MsAdd(s.timestamp, MulDiv1000(s.samples, s.rate)))

TargetGain(s) ==
  IF BitAnd(s.xmit_level[s.xmit_i], s.xmit_bit) # 0 THEN GainOne
  ELSE IF s.is_morse THEN 0
  ELSE station_info[s.station].xmit_low

\* bool is_xmit_high = station->xmit_level[xmit_i] & xmit_bit
CbIsXmitHigh(s) == BitAnd(s.xmit_level[s.xmit_i], s.xmit_bit) # 0

\* k >= 1 iterations of the rest of the loop body with no tick among them
CbSamples(s, k) ==
  [s EXCEPT !.is_xmit_high = CbIsXmitHigh(s),
            !.gain = IF s.smooth THEN LerpN(TargetGain(s), @, k) ELSE TargetGain(s),
            !.iir = IirNextN(@, k),
            !.samples = @ + k]

\* out_cb_buf[i] = tsig_iir_next(&station->iir) * station->gain; the first
\* MaxOutSamples samples of a callback are kept
CbEmit(s) ==
  IF Len(s.out) < MaxOutSamples
  THEN [s EXCEPT !.out = Append(@, <<s.iir.ret, s.gain>>)]
  ELSE s

\* one iteration of the loop body
CbIter(s) ==
  IF s.samples = s.next_tick THEN CbEmit(CbSamples(CbTick(s), 1))
  ELSE CbEmit(CbSamples(s, 1))

CbIter8(s) == CbIter(CbIter(CbIter(CbIter(CbIter(CbIter(CbIter(CbIter(s))))))))

\* for (i = 0; i < size; i++) with n iterations left to run: one at a time
\* while samples are being kept or a tick is due, and otherwise all the
\* iterations up to the next tick at once
RECURSIVE CbFor(_, _)
CbFor(s, n) ==
  IF n = 0 THEN s
  ELSE IF Len(s.out) < MaxOutSamples
  THEN IF n >= 8 THEN CbFor(CbIter8(s), n - 8) ELSE CbFor(CbIter(s), n - 1)
  ELSE IF s.samples = s.next_tick THEN CbFor(CbIter(s), n - 1)
  ELSE IF n <= s.next_tick - s.samples THEN CbSamples(s, n)
  ELSE CbFor(CbSamples(s, s.next_tick - s.samples), n - (s.next_tick - s.samples))

\* station->next_timestamp = station->timestamp + elapsed_msecs
CbNextTimestamp(s) ==
  [s EXCEPT !.next_timestamp = MsAdd(s.timestamp, MulDiv1000(s.samples, s.rate))]

tsig_station_cb(s, now, size) ==
  CbNextTimestamp(CbFor(CbLocals(CbSync(CbFirstRun(s, now), now)), size))

(***************************************************************************)
(* The scheduler driven as an audio backend drives it: construction, then  *)
(* callbacks and calls of tsig_station_set_rate.  h.clock is the system    *)
(* time at which the samples produced so far run out; each callback reads  *)
(* the clock at that time plus a deviation, or fails to read it and gets   *)
(* 0.  h.pre is the context before the last callback; h.s0, h.now0, h.K,   *)
(* h.parts and h.out describe the callbacks made since the last one that   *)
(* was the first, followed a rate change or resynchronised: the context    *)
(* they started from, the clock the first of them read, the samples asked  *)
(* for in total, their number and the first samples they produced.         *)
(***************************************************************************)
MaxCallbacks == 2

MaxSetRates == 1

SchedCfg(station, rate, base, offset, smooth, ultrasound) ==
  [ station |-> station, rate |-> rate, base |-> base, offset |-> offset,
    dut1 |-> 0, smooth |-> smooth, ultrasound |-> ultrasound ]

SchedCfgs ==
  { SchedCfg("DCF77", 44100, TSIG_STATION_BASE_SYSTEM, 0, TRUE, FALSE),
    SchedCfg("JJY", 48000, TSIG_STATION_BASE_SYSTEM, 0, TRUE, FALSE),
    SchedCfg("MSF", 88200, TSIG_STATION_BASE_SYSTEM, 0, FALSE, FALSE),
    SchedCfg("WWVB", 96000, TSIG_STATION_BASE_SYSTEM, 0, TRUE, FALSE),
    SchedCfg("BPC", 176400, TSIG_STATION_BASE_SYSTEM, 0, FALSE, FALSE),
    SchedCfg("JJY60", 192000, TSIG_STATION_BASE_SYSTEM, 0, TRUE, FALSE),
    SchedCfg("DCF77", 352800, TSIG_STATION_BASE_SYSTEM, 0, TRUE, TRUE),
    SchedCfg("WWVB", 384000, TSIG_STATION_BASE_SYSTEM, -1500, FALSE, TRUE),
    SchedCfg("DCF77", 44100, Ms64(20177, 3599000), 951, TRUE, FALSE),
    SchedCfg("JJY", 48000, MsZero, 0, TRUE, FALSE),
    SchedCfg("MSF", 48000, MsZero, -100, FALSE, FALSE) }

\* 2025-10-25 07:14:59.951, 07:14:59.999, 07:15:40.549 and 07:44:59.960 UTC
SchedClocks ==
  { Ms64(20386, 26099951), Ms64(20386, 26099999), Ms64(20386, 26140549),
    Ms64(20386, 27899960) }

SchedNewRates == {44100}

CbInput(ok, delta, size) == [ok |-> ok, delta |-> delta, size |-> size]

CbInputs ==
  { CbInput(TRUE, 0, 1), CbInput(TRUE, 0, 385), CbInput(TRUE, 0, 19201),
    CbInput(TRUE, 500, 385), CbInput(TRUE, -500, 385),
    CbInput(TRUE, 501, 385), CbInput(TRUE, -501, 385),
    CbInput(FALSE, 0, 385) }

SchedStart(s, clock) ==
  [ pc |-> "sched", clock |-> clock, calls |-> 0, set_rates |-> 0,
    now |-> MsZero, size |-> 0, rate_set |-> FALSE, after_set_rate |-> FALSE,
    first_now |-> MsZero, pre |-> s,
    s0 |-> s, now0 |-> MsZero, K |-> 0, parts |-> 0, out |-> << >> ]

Init ==
  /\ \E cfg \in SchedCfgs, clock \in SchedClocks :
       /\ st = tsig_station_init(cfg)
       /\ h = SchedStart(tsig_station_init(cfg), clock)
  /\ enc = Idle /\ osc = Idle /\ alsa = Idle
  /\ call = Idle /\ host = Idle

SetRate ==
  /\ h.pc = "sched"
  /\ h.set_rates < MaxSetRates /\ h.calls < MaxCallbacks
  /\ \E rate \in SchedNewRates : st' = tsig_station_set_rate(st, rate)
  /\ h' = [h EXCEPT !.set_rates = @ + 1, !.rate_set = TRUE]
  /\ UNCHANGED <<enc, osc, alsa, call, host>>

\* tsig_datetime_parse_timestamp is modelled for dates a signed count holds:
\* a resync to a timestamp that has wrapped below zero is left out
CbDatedAt(s, timestamp) == ~(timestamp.d < 0 /\ DriftOver(timestamp, s.next_timestamp))

CbDatedFrom(s, now) == CbDatedAt(s, MsPlus(now, s.base_offset))

CbDated(s, now) == CbDatedFrom(CbFirstRun(s, now), now)

OutPrefix(seq) ==
  IF Len(seq) <= MaxOutSamples THEN seq ELSE SubSeq(seq, 1, MaxOutSamples)

ObserveRun(hh, pre, post, now, size, restart) ==
  [hh EXCEPT !.clock = MsMinus(post.next_timestamp, post.base_offset),
             !.calls = @ + 1, !.now = now, !.size = size,
             !.rate_set = FALSE, !.after_set_rate = hh.rate_set,
             !.first_now = IF hh.calls = 0 THEN now ELSE @,
             !.pre = pre,
             !.s0 = IF restart THEN pre ELSE @,
             !.now0 = IF restart THEN now ELSE @,
             !.K = IF restart THEN size ELSE @ + size,
             !.parts = IF restart THEN 1 ELSE @ + 1,
             !.out = IF restart THEN post.out ELSE OutPrefix(@ \o post.out)]

Observe(hh, pre, post, now, size) ==
  ObserveRun(hh, pre, post, now, size, hh.calls = 0 \/ hh.rate_set \/ post.resynced)

CallbackAt(now, size) ==
  /\ CbDated(st, now)
  /\ st' = tsig_station_cb(st, now, size)
  /\ h' = Observe(h, st, st', now, size)

Callback ==
  /\ h.pc = "sched"
  /\ h.calls < MaxCallbacks
  /\ \E in \in CbInputs :
       CallbackAt(IF in.ok THEN MsAdd(h.clock, in.delta) ELSE MsZero, in.size)
  /\ UNCHANGED <<enc, osc, alsa, call, host>>

Next == SetRate \/ Callback

Spec == Init /\ [][Next]_vars

\* a callback has been made and set_rate has not been called since
AfterCallback == h.calls >= 1 /\ ~h.rate_set

\* C1: whenever the tick rolls from 1199 to 0, at every supported rate and
\* for every millisecond at which the last resync happened, the timestamp
\* handed to update_cb is the start of the minute beginning, a multiple of
\* 60000 ms.
C1_RollAtMinuteStart ==
  (h.pc = "sched" /\ AfterCallback) =>
    \A i \in 1 .. Len(st.rolls) : st.rolls[i].ms % station_msecs_min = 0

\* base - system time + offset with a configured base, else offset
ClaimedBaseOffset(s, first_now) ==
  IF s.base # TSIG_STATION_BASE_SYSTEM
  THEN MsAdd(MsMinus(s.base, first_now), s.offset)
  ELSE Ms64(0, s.offset)

\* C2: the first callback after construction sets base_offset to configured
\* base - system time + user offset, or to the user offset without a base,
\* whether or not set_rate was called before it, and a later resync takes
\* system time plus that base_offset as its timestamp.
C2_FirstRunBaseOffset ==
  (h.pc = "sched" /\ AfterCallback) =>
    /\ st.base_offset = ClaimedBaseOffset(st, h.first_now)
    /\ st.resynced => st.timestamp = MsPlus(h.now, ClaimedBaseOffset(st, h.first_now))

\* the listed registers of context a and the samples out are those of the
\* context one that a single callback leaves
SameRun(a, out, one) ==
  /\ a.samples = one.samples /\ a.next_tick = one.next_tick /\ a.tick = one.tick
  /\ a.is_morse = one.is_morse /\ a.gain = one.gain /\ a.iir = one.iir
  /\ a.xmit_level = one.xmit_level /\ a.next_timestamp = one.next_timestamp
  /\ a.timestamp = one.timestamp
  /\ out = one.out

\* C3: with a clock in step with the samples produced, callbacks whose sizes
\* sum to K produce the same sample sequence and leave the same samples,
\* next_tick, tick, is_morse, gain, oscillator, bitmap and next_timestamp as
\* one callback of size K made from the same context at the time of the
\* first.
C3_PartitionEquivalence ==
  (h.pc = "sched" /\ AfterCallback) =>
    SameRun(st, h.out, tsig_station_cb(h.s0, h.now0, h.K))

\* two callbacks in step, of 1 and 385 samples, with the tick rolling over in
\* the second
C3_Witness ==
  /\ h.pc = "sched" /\ h.parts = 2 /\ h.K = 386 /\ h.size = 385
  /\ st.samples = 386 /\ Len(st.rolls) = 1 /\ st.tick = 0
  /\ Len(h.out) = MaxOutSamples

\* |timestamp - expected| > 500 as a claim about the counts themselves,
\* expected being UINT64_MAX before the first callback
CountsDriftOver(timestamp, expected) ==
  IF expected = station_first_run THEN TRUE
  ELSE ~MsAbsLeq(MsMinus(timestamp, expected), station_drift_threshold)

\* what a resync to timestamp leaves, and what a callback without one leaves
ResyncedTo(pre, post, timestamp, size) ==
  post.timestamp = timestamp /\ post.samples = size /\ post.iir.rate = post.rate

ContinuedFrom(pre, post, size) ==
  /\ post.timestamp = pre.timestamp /\ post.samples = pre.samples + size
  /\ post.iir.phase = pre.iir.phase /\ post.iir.rate = pre.iir.rate

\* C4: a callback resynchronises if and only if
\* |now + base_offset - next_timestamp| > 500 ms; with a drift of 500 ms or
\* less the timing registers continue from their previous values.
C4_ResyncIffDrift ==
  (h.pc = "sched" /\ AfterCallback) =>
    IF CountsDriftOver(MsPlus(h.now, st.base_offset), h.pre.next_timestamp)
    THEN ResyncedTo(h.pre, st, MsPlus(h.now, st.base_offset), h.size)
    ELSE ContinuedFrom(h.pre, st, h.size)

\* the same for callbacks whose now + base_offset is not below zero
ResyncIffDriftUnwrapped ==
  (h.pc = "sched" /\ AfterCallback /\ MsPlus(h.now, st.base_offset).d >= 0) =>
    IF CountsDriftOver(MsPlus(h.now, st.base_offset), h.pre.next_timestamp)
    THEN ResyncedTo(h.pre, st, MsPlus(h.now, st.base_offset), h.size)
    ELSE ContinuedFrom(h.pre, st, h.size)

\* next_tick is msecs_to_tick * rate / 1000 plus a whole number of samples_tick
NextTickFrom(s, msec) ==
  (s.next_tick - ((TSIG_STATION_MSECS_TICK - (msec % TSIG_STATION_MSECS_TICK)) * s.rate)
                   \div 1000) % s.samples_tick = 0

\* C5: the callback that follows a call of set_rate(rate) resynchronises, and
\* after it samples_tick = rate * 50 / 1000 and next_tick and the oscillator
\* are those computed from the new rate.
C5_SetRateForcesResync ==
  (h.pc = "sched" /\ AfterCallback /\ h.after_set_rate) =>
    /\ ResyncedTo(h.pre, st, MsPlus(h.now, st.base_offset), h.size)
    /\ st.samples_tick = (st.rate * TSIG_STATION_MSECS_TICK) \div 1000
    /\ NextTickFrom(st, MsPlus(h.now, st.base_offset).ms % 1000)

\* tsig_datetime_get_timestamp returned 0 in the last callback: the clock
\* could not be read (the clocks of SchedClocks are all past 1970)
ClockReadFailed == h.now = MsZero

\* C14: if reading the system time fails during a callback, the callback
\* makes no drift check and does not resync: timestamp, samples, tick,
\* next_tick, the oscillator and the bitmap continue from their previous
\* values and the samples asked for are produced.
C14_ClockFailureNoResync ==
  (h.pc = "sched" /\ AfterCallback /\ ClockReadFailed) =>
    /\ ~st.resynced
    /\ ContinuedFrom(h.pre, st, h.size)
    /\ st.next_tick >= h.pre.next_tick

\* the same for a callback that is not the first
ClockFailureNoResyncLater ==
  (h.pc = "sched" /\ AfterCallback /\ ClockReadFailed /\ h.calls >= 2
     /\ ~h.after_set_rate) =>
    ~st.resynced /\ ContinuedFrom(h.pre, st, h.size)

\* ms * rate / 1000 as a whole number, for a rate that is a multiple of 100
RefSamplesIn(ms, rate) == (ms * (rate \div 100)) \div 10

\* ms * rate < 2^32, for a rate that is a multiple of 100
FitsUint32(ms, rate) == ms * (rate \div 100) <= 42949672

\* milliseconds from the resync instant to the next minute
MsecsToMin(s) == station_msecs_min - (s.timestamp.ms % station_msecs_min)

\* C27: after a resync at any millisecond of the minute and for every
\* supported rate up to 384000 Hz, the phase given to the oscillator is
\* -(ms_to_next_minute * rate / 1000), computed without overflow, so that the
\* carrier is at phase 0 on the first sample of the next minute.
C27_PhaseToNextMinute ==
  (h.pc = "sched" /\ AfterCallback /\ st.resynced) =>
    /\ FitsUint32(MsecsToMin(st), st.rate)
    /\ st.iir.phase = CRem(-RefSamplesIn(MsecsToMin(st), st.rate), st.iir.period)
    /\ st.iir.init_y0 = Sine(CMulRem(st.iir.phase, st.iir.delta, st.iir.period))

\* what holds instead: the phase is right whenever the product fits 32 bits
PhaseToNextMinuteIn32Bits ==
  (/\ h.pc = "sched" /\ AfterCallback /\ st.resynced
   /\ FitsUint32(MsecsToMin(st), st.rate)) =>
    st.iir.phase = CRem(-RefSamplesIn(MsecsToMin(st), st.rate), st.iir.period)

\* a resync at 384000 Hz with 20.951 s to go, where the phase is wrong
PhaseWrapped ==
  /\ h.pc = "sched" /\ AfterCallback /\ st.resynced /\ st.rate = 384000
  /\ MsecsToMin(st) = 20951
  /\ st.iir.phase # CRem(-RefSamplesIn(MsecsToMin(st), st.rate), st.iir.period)

\* C29: the frequency given to the oscillator never exceeds half of the
\* sample rate in use: after any sequence of init and set_rate calls,
\* freq <= rate / 2 holds at every initialisation of the oscillator.
C29_FreqBelowNyquist ==
  (h.pc = "sched" /\ AfterCallback /\ st.resynced) =>
    /\ st.iir.freq = st.freq /\ st.iir.rate = st.rate
    /\ 2 * st.iir.freq <= st.iir.rate

\* what holds instead: the bound for the rate the context was constructed with
FreqBelowConfiguredNyquist ==
  (h.pc = "sched" /\ AfterCallback /\ st.resynced /\ h.set_rates = 0) =>
    2 * st.iir.freq <= st.iir.rate

\* DCF77 constructed for 352800 Hz with ultrasound, then set to 44100 Hz
FreqAboveNyquist ==
  /\ h.pc = "sched" /\ AfterCallback /\ st.resynced
  /\ st.iir.freq = 77500 /\ st.iir.rate = 44100

(***************************************************************************)
(* The callback one stretch of its loop at a time: the entry (first run,   *)
(* drift check and resync, locals), then the iterations of the for loop,   *)
(* an iteration with a tick on its own and the iterations between two      *)
(* ticks together, then the exit.  h.left is the number of iterations      *)
(* still to run, h.last the stretch just run, h.pre_tick the tick before   *)
(* it, h.since the samples produced at the current tick, h.whole whether   *)
(* that tick began with a tick of the loop, h.pre_since and h.pre_whole    *)
(* the same for the tick before, h.emitted the samples produced since the  *)
(* last resync, h.updates the calls of update_cb, h.updated those of the   *)
(* last stretch, h.update_ts the timestamp given to the last call and      *)
(* h.level the bitmap it left.                                             *)
(***************************************************************************)
MaxLoopCallbacks == 2

LoopCfgs ==
  { SchedCfg("DCF77", 44100, TSIG_STATION_BASE_SYSTEM, 0, TRUE, FALSE),
    SchedCfg("JJY", 48000, TSIG_STATION_BASE_SYSTEM, 0, FALSE, FALSE),
    SchedCfg("JJY60", 192000, TSIG_STATION_BASE_SYSTEM, 0, TRUE, FALSE),
    SchedCfg("WWVB", 384000, TSIG_STATION_BASE_SYSTEM, -1500, FALSE, TRUE),
    SchedCfg("MSF", 48000, MsZero, -100, FALSE, FALSE) }

\* 2025-10-25 07:14:59.951, 07:15:40.549, 07:15:45.000 and 07:44:59.960 UTC
LoopClocks ==
  { Ms64(20386, 26099951), Ms64(20386, 26140549), Ms64(20386, 26145000),
    Ms64(20386, 27899960) }

\* one sample, a part of a tick, several ticks, more than a minute
LoopSizes(s) == {1, 385, 9 * s.samples_tick + 7, 1201 * s.samples_tick + 3}

\* the deviation of the clock read from the time the samples run out
LoopDeltas(hh) == IF hh.calls = 0 THEN {0} ELSE {0, 600}

LoopStart(clock) ==
  [ pc |-> "loop", in |-> FALSE, clock |-> clock, calls |-> 0,
    left |-> 0, last |-> "init", pre_tick |-> 0, since |-> 0, whole |-> FALSE,
    pre_since |-> 0, pre_whole |-> FALSE, emitted |-> 0, updates |-> 0,
    updated |-> 0, update_ts |-> MsZero, level |-> XmitZero ]

LoopInit ==
  /\ \E cfg \in LoopCfgs, clock \in LoopClocks :
       /\ st = tsig_station_init(cfg)
       /\ h = LoopStart(clock)
  /\ enc = Idle /\ osc = Idle /\ alsa = Idle
  /\ call = Idle /\ host = Idle

LoopEntered(hh, post, size) ==
  [hh EXCEPT !.in = TRUE, !.calls = @ + 1, !.left = size, !.last = "enter",
             !.pre_tick = post.tick,
             !.since = IF post.resynced THEN 0 ELSE @,
             !.whole = IF post.resynced THEN FALSE ELSE @,
             !.emitted = IF post.resynced THEN 0 ELSE @,
             !.updates = IF post.resynced THEN @ + 1 ELSE @,
             !.updated = IF post.resynced THEN 1 ELSE 0,
             !.update_ts = IF post.resynced THEN post.timestamp ELSE @,
             !.level = IF post.resynced THEN post.xmit_level ELSE @]

\* the callback up to the for loop
LoopEnterAt(now, size) ==
  /\ CbDated(st, now)
  /\ st' = CbLocals(CbSync(CbFirstRun(st, now), now))
  /\ h' = LoopEntered(h, CbLocals(CbSync(CbFirstRun(st, now), now)), size)

LoopEnter ==
  /\ h.pc = "loop" /\ ~h.in /\ h.calls < MaxLoopCallbacks
  /\ \E delta \in LoopDeltas(h), size \in LoopSizes(st) :
       LoopEnterAt(MsAdd(h.clock, delta), size)
  /\ UNCHANGED <<enc, osc, alsa, call, host>>

LoopStepped(hh, pre, post, kind, k) ==
  [hh EXCEPT !.left = @ - k, !.last = kind, !.pre_tick = pre.tick,
             !.pre_since = hh.since, !.pre_whole = hh.whole,
             !.since = IF kind = "tick" THEN k ELSE @ + k,
             !.whole = IF kind = "tick" THEN TRUE ELSE @,
             !.emitted = @ + k,
             !.updates = @ + Len(post.rolls) - Len(pre.rolls),
             !.updated = Len(post.rolls) - Len(pre.rolls),
             !.update_ts = IF Len(post.rolls) > Len(pre.rolls)
                           THEN post.rolls[Len(post.rolls)] ELSE @,
             !.level = IF Len(post.rolls) > Len(pre.rolls) THEN post.xmit_level ELSE @]

\* one iteration in which samples == next_tick
LoopTick ==
  /\ h.pc = "loop" /\ h.in /\ h.left > 0 /\ st.samples = st.next_tick
  /\ st' = CbFor(st, 1)
  /\ h' = LoopStepped(h, st, CbFor(st, 1), "tick", 1)
  /\ UNCHANGED <<enc, osc, alsa, call, host>>

\* the iterations left before the next tick is due
LoopStretch(s, left) ==
  IF s.next_tick > s.samples /\ s.next_tick - s.samples < left
  THEN s.next_tick - s.samples ELSE left

\* the iterations up to the next tick or the end of the loop
LoopRun ==
  /\ h.pc = "loop" /\ h.in /\ h.left > 0 /\ st.samples # st.next_tick
  /\ st' = CbFor(st, LoopStretch(st, h.left))
  /\ h' = LoopStepped(h, st, CbFor(st, LoopStretch(st, h.left)), "run",
                      LoopStretch(st, h.left))
  /\ UNCHANGED <<enc, osc, alsa, call, host>>

\* the end of the callback: next_timestamp
LoopExit ==
  /\ h.pc = "loop" /\ h.in /\ h.left = 0
  /\ st' = CbNextTimestamp(st)
  /\ h' = [h EXCEPT !.in = FALSE, !.last = "exit",
                    !.clock = MsMinus(CbNextTimestamp(st).next_timestamp, st.base_offset)]
  /\ UNCHANGED <<enc, osc, alsa, call, host>>

LoopNext == LoopEnter \/ LoopTick \/ LoopRun \/ LoopExit

SpecLoop == LoopInit /\ [][LoopNext]_vars

\* the last stretch produced samples
LoopSampled == h.pc = "loop" /\ h.last \in {"tick", "run"}

\* C23: between resyncs the update function is called exactly once each
\* time the tick rolls from 1199 to 0 and at no other tick, and the call is
\* complete before the first sample of tick 0 is computed: every sample of
\* the new minute is modulated from the new bitmap, none of the old minute.
C23_UpdateAtRoll ==
  (h.pc = "loop" /\ h.calls >= 1) =>
    /\ h.last = "tick" => h.updated = (IF st.tick = 0 THEN 1 ELSE 0)
    /\ (h.last = "tick" /\ st.tick = 0) =>
         /\ h.pre_tick = TSIG_STATION_TICKS_MIN - 1
         /\ h.since = 1
         /\ st.xmit_level = update_cb(st.station, h.update_ts, st.dut1, XmitZero)
    /\ h.last = "run" => h.updated = 0
    /\ st.xmit_level = h.level
    /\ LoopSampled => st.is_xmit_high = (XmitBit(h.level, st.tick) = 1)

\* DCF77 resynchronised at 07:14:59.951 has rolled into 07:15 and into
\* 07:16, each time with one call of update_cb
C23_Witness ==
  /\ h.pc = "loop" /\ st.station = "DCF77" /\ h.last = "tick" /\ st.tick = 0
  /\ h.pre_tick = 1199 /\ h.updates = 3 /\ h.updated = 1 /\ h.calls = 1

\* C24: for any callback size the tick advances by exactly 1 modulo 1200
\* every samples_tick samples: the ticks are visited in ascending order,
\* none is skipped or repeated, the only decrease is the wrap from 1199 to
\* 0, and the bitmap bit used for a sample is the bit of the current tick.
C24_TickCadence ==
  (h.pc = "loop" /\ h.calls >= 1) =>
    /\ h.last = "tick" =>
         /\ st.tick = (h.pre_tick + 1) % TSIG_STATION_TICKS_MIN
         /\ h.pre_whole => h.pre_since = st.samples_tick
    /\ h.last = "run" => st.tick = h.pre_tick
    /\ h.since <= st.samples_tick
    /\ LoopSampled =>
         /\ st.xmit_i = st.tick \div 8
         /\ st.xmit_bit = 2 ^ (st.tick % 8)
         /\ st.is_xmit_high = (XmitBit(st.xmit_level, st.tick) = 1)

\* a callback of more than a minute at 384000 Hz has wrapped from 1199 to 0
\* after a whole tick of 19200 samples
C24_Witness ==
  /\ h.pc = "loop" /\ st.rate = 384000 /\ h.calls = 1 /\ h.last = "tick"
  /\ h.pre_tick = 1199 /\ st.tick = 0 /\ h.pre_whole /\ h.pre_since = 19200
  /\ h.emitted > 100 * st.samples_tick

\* a second callback that begins in the middle of tick 3 with bit 3
C24_WitnessMidTick ==
  /\ h.pc = "loop" /\ h.calls = 2 /\ h.last = "run" /\ ~st.resynced
  /\ st.tick % 8 = 3 /\ h.since > 385 /\ h.since < st.samples_tick

\* C25: between minute boundaries samples < samples_tick * 1200: the counter
\* counts the samples since the start of the current minute and never
\* reaches a minute's worth of samples, however long the generator runs.
C25_SamplesWithinMinute ==
  (h.pc = "loop" /\ h.calls >= 1) => st.samples < st.samples_tick * TSIG_STATION_TICKS_MIN

\* what holds instead: samples counts the samples since the last resync
SamplesSinceResync ==
  (h.pc = "loop" /\ h.calls >= 1) => st.samples = h.emitted

\* a minute and more after the resync at 07:14:59.951 the counter has passed
\* a minute's worth of samples
SamplesPastMinute ==
  /\ h.pc = "loop" /\ st.station = "DCF77" /\ st.rate = 44100 /\ h.calls = 1
  /\ st.samples = 1200 * 2205 + 2160 + 1 /\ st.tick = 0 /\ h.updates = 3

\* C26: next_tick >= samples after every resync and after every sample, for
\* every rate, resync instant and callback size; the two are equal only just
\* before a tick is processed, so no tick boundary is passed unnoticed.
C26_NextTickAhead ==
  (h.pc = "loop" /\ h.calls >= 1) =>
    /\ st.next_tick >= st.samples
    /\ st.next_tick - st.samples <= st.samples_tick
    /\ (h.last = "enter" /\ st.resynced) => (st.samples = 0 /\ st.next_tick > 0)
    /\ h.last = "tick" => st.next_tick = st.samples - 1 + st.samples_tick
    /\ (LoopSampled /\ st.samples = st.next_tick) =>
         (h.last = "run" /\ h.since = IF h.whole THEN st.samples_tick ELSE st.next_tick)

\* at 384000 Hz the last sample before a tick has been produced in the
\* middle of a callback
C26_Witness ==
  /\ h.pc = "loop" /\ st.rate = 384000 /\ h.last = "run" /\ h.left > 0
  /\ st.samples = st.next_tick /\ h.whole

\* the minute of the hour in which the last sample was produced
LoopMinute ==
  (MsAdd(st.timestamp, MulDiv1000(st.samples - 1, st.rate)).ms % datetime_msecs_hour)
    \div datetime_msecs_min

\* JJY or JJY60 in minute 15 or 45 with the tick in 811 .. 979
LoopInCallsign ==
  /\ st.station \in {"JJY", "JJY60"}
  /\ LoopMinute \in {15, 45}
  /\ 811 <= st.tick /\ st.tick < 980

\* C28: at every sample is_morse is true exactly when the station is JJY or
\* JJY60, the minute is 15 or 45 and 811 <= tick < 980, across resyncs at
\* any instant, ticks and minute wraps; a low bit is keyed to gain 0 inside
\* that window and to the station's low gain elsewhere.
C28_MorseWindow ==
  LoopSampled =>
    /\ st.is_morse <=> LoopInCallsign
    /\ TargetGain(st) = (IF st.is_xmit_high THEN GainOne
                         ELSE IF LoopInCallsign THEN 0
                         ELSE station_info[st.station].xmit_low)
    /\ ~st.smooth => st.gain = TargetGain(st)

\* JJY in the gap after the first dit of the callsign, keyed to gain 0
C28_Witness ==
  /\ LoopSampled /\ st.station = "JJY" /\ LoopMinute = 15 /\ st.tick = 813
  /\ st.is_morse /\ ~st.is_xmit_high /\ st.gain = 0 /\ h.updates >= 2

\* JJY60 resynchronised at 07:15:45.000, inside the window
C28_WitnessResync ==
  /\ LoopSampled /\ st.station = "JJY60" /\ st.timestamp = Ms64(20386, 26145000)
  /\ st.tick = 900 /\ st.is_morse

\* JJY after the window, at the marker of second 49, back at the low gain
C28_WitnessAfter ==
  /\ LoopSampled /\ st.station = "JJY" /\ LoopMinute = 15 /\ st.tick = 985
  /\ ~st.is_morse /\ ~st.is_xmit_high /\ st.gain = station_info.JJY.xmit_low

(***************************************************************************)
(* audio.c.  A sample is a double in [-1.0, 1.0], kept in 1024ths.  The    *)
(* union n of tsig_audio_fill_buffer is kept as its 8 bytes in memory      *)
(* order, which depends on the byte order of the machine.                  *)
(***************************************************************************)
TSIG_AUDIO_FORMAT_UNKNOWN == "UNKNOWN"

audio_formats ==
  { "S16", "S16_LE", "S16_BE", "S24", "S24_LE", "S24_BE", "S32", "S32_LE", "S32_BE",
    "U16", "U16_LE", "U16_BE", "U24", "U24_LE", "U24_BE", "U32", "U32_LE", "U32_BE",
    "FLOAT", "FLOAT_LE", "FLOAT_BE", "FLOAT64", "FLOAT64_LE", "FLOAT64_BE" }

audio_format_is_float(format) ==
  format \in {"FLOAT", "FLOAT_LE", "FLOAT_BE", "FLOAT64", "FLOAT64_LE", "FLOAT64_BE"}

audio_format_is_signed(format) ==
  format \in {"S16", "S16_LE", "S16_BE", "S24", "S24_LE", "S24_BE", "S32", "S32_LE", "S32_BE"}

audio_format_is_le(format, cpu_le) ==
  \/ format \in {"S16", "S24", "S32", "U16", "U24", "U32", "FLOAT", "FLOAT64"} /\ cpu_le
  \/ format \in {"S16_LE", "S24_LE", "S32_LE", "U16_LE", "U24_LE", "U32_LE",
                 "FLOAT_LE", "FLOAT64_LE"}

audio_format_width(format) ==
  IF format \in {"S16", "S16_LE", "S16_BE", "U16", "U16_LE", "U16_BE"} THEN 2
  ELSE IF format \in {"S24", "S24_LE", "S24_BE", "U24", "U24_LE", "U24_BE"} THEN 3
  ELSE IF format \in {"S32", "S32_LE", "S32_BE", "U32", "U32_LE", "U32_BE",
                       "FLOAT", "FLOAT_LE", "FLOAT_BE"}
  THEN 4
  ELSE IF format \in {"FLOAT64", "FLOAT64_LE", "FLOAT64_BE"} THEN 8
  ELSE 0

\* a physical width that packs 24-bit samples into 3 bytes
audio_format_phys_width_packed(format) == audio_format_width(format)

audio_format_phys_width(format) ==
  IF format \in {"S16", "S16_LE", "S16_BE", "U16", "U16_LE", "U16_BE"} THEN 2
  ELSE IF format \in {"S24", "S24_LE", "S24_BE", "U24", "U24_LE", "U24_BE"}
                   \cup {"S32", "S32_LE", "S32_BE", "U32", "U32_LE", "U32_BE",
                       "FLOAT", "FLOAT_LE", "FLOAT_BE"}
  THEN 4
  ELSE IF format \in {"FLOAT64", "FLOAT64_LE", "FLOAT64_BE"} THEN 8
  ELSE 0

Reverse(seq) == [j \in 1 .. Len(seq) |-> seq[Len(seq) + 1 - j]]

\* the 8 bytes of a two's complement int64_t, least significant first
AudioLsb(v) ==
  [j \in 1 .. 8 |-> IF j = 1 THEN v % 256
                    ELSE IF j = 2 THEN (v \div 256) % 256
                    ELSE IF v < 0 THEN 255 ELSE 0]

\* a value's bytes, least significant first, as the machine lays them out
AudioMem(lsb, cpu_le) == IF cpu_le THEN lsb ELSE Reverse(lsb)

\* a member of the union written over the first bytes of its storage
AudioOverlay(mem, part) == part \o SubSeq(mem, Len(part) + 1, Len(mem))

\* n.i64 = cb_buf[i] * -INT16_MIN, or (1.0 + cb_buf[i]) * UINT16_MAX * 0.5
\* and INT16_MIN added for a signed format
AudioQuantize(is_float, is_signed, x) ==
  IF is_float THEN (x * 32768) \div 1024
  ELSE ((1024 + x) * 65535) \div 2048 + (IF is_signed THEN -32768 ELSE 0)

RECURSIVE AudioLog2(_)
AudioLog2(n) == IF n < 2 THEN 0 ELSE 1 + AudioLog2(n \div 2)

\* the IEEE 754 bytes of k / 32768 for |k| <= 32768, least significant first;
\* p is the position of the leading bit of |k|, the fraction is |k| - 2^p
AudioFloat(p, k, width) ==
  IF k = 0 THEN [j \in 1 .. width |-> 0]
  ELSE IF width = 4
  THEN << (((IF k < 0 THEN -k ELSE k) - 2 ^ p) * 2 ^ (23 - p)) % 256,
          ((((IF k < 0 THEN -k ELSE k) - 2 ^ p) * 2 ^ (23 - p)) \div 256) % 256,
          ((p + 112) % 2) * 128
            + (((IF k < 0 THEN -k ELSE k) - 2 ^ p) * 2 ^ (23 - p)) \div 65536,
          (IF k < 0 THEN 128 ELSE 0) + (p + 112) \div 2 >>
  ELSE << 0, 0, 0, 0,
          (((IF k < 0 THEN -k ELSE k) - 2 ^ p) * 2 ^ (20 - p)) % 256,
          ((((IF k < 0 THEN -k ELSE k) - 2 ^ p) * 2 ^ (20 - p)) \div 256) % 256,
          ((p + 1008) % 16) * 16
            + (((IF k < 0 THEN -k ELSE k) - 2 ^ p) * 2 ^ (20 - p)) \div 65536,
          (IF k < 0 THEN 128 ELSE 0) + (p + 1008) \div 16 >>

\* the union after "Convert back to the proper output format"
AudioConvert(is_float, width, k, lsb, cpu_le) ==
  IF is_float /\ width = 8
  THEN AudioMem(AudioFloat(AudioLog2(IF k < 0 THEN -k ELSE k), k, 8), cpu_le)
  ELSE IF is_float
  THEN AudioOverlay(AudioMem(lsb, cpu_le),
                    AudioMem(AudioFloat(AudioLog2(IF k < 0 THEN -k ELSE k), k, 4), cpu_le))
  ELSE IF width = 4
  THEN AudioOverlay(AudioMem(lsb, cpu_le), AudioMem(<<0, 0, lsb[1], lsb[2]>>, cpu_le))
  ELSE IF width = 3
  THEN AudioOverlay(AudioMem(lsb, cpu_le), AudioMem(<<0, lsb[1], lsb[2], lsb[3]>>, cpu_le))
  ELSE AudioOverlay(AudioMem(lsb, cpu_le), AudioMem(<<lsb[1], lsb[2]>>, cpu_le))

\* *buf_uNN++ = is_swap ? __builtin_bswapNN(n.uNN) : n.uNN
AudioStore(mem, phys_width, is_swap) ==
  IF phys_width = 8 THEN (IF is_swap THEN Reverse(mem) ELSE mem)
  ELSE IF phys_width = 4
  THEN (IF is_swap THEN Reverse(SubSeq(mem, 1, 4)) ELSE SubSeq(mem, 1, 4))
  ELSE (IF is_swap THEN Reverse(SubSeq(mem, 1, 2)) ELSE SubSeq(mem, 1, 2))

\* the bytes one sample puts into one channel slot
AudioSlot(format, cpu_le, x) ==
  AudioStore(AudioConvert(audio_format_is_float(format), audio_format_width(format),
                          AudioQuantize(audio_format_is_float(format),
                                        audio_format_is_signed(format), x),
                          AudioLsb(AudioQuantize(audio_format_is_float(format),
                                                 audio_format_is_signed(format), x)),
                          cpu_le),
             audio_format_phys_width(format),
             cpu_le # audio_format_is_le(format, cpu_le))

\* for (c = 0; c < channels; c++): the same store into consecutive slots
RECURSIVE AudioChannels(_, _)
AudioChannels(slot, channels) ==
  IF channels = 0 THEN << >> ELSE slot \o AudioChannels(slot, channels - 1)

\* for (i = 0; i < size; i++): the bytes stored from sample i on
RECURSIVE AudioFrames(_, _, _, _, _, _)
AudioFrames(format, channels, size, cb_buf, cpu_le, i) ==
  IF i > size THEN << >>
  ELSE AudioChannels(AudioSlot(format, cpu_le, cb_buf[i]), channels)
         \o AudioFrames(format, channels, size, cb_buf, cpu_le, i + 1)

\* the bytes tsig_audio_fill_buffer stores, from the start of buf on
AudioWritten(format, channels, size, cb_buf, cpu_le) ==
  IF audio_format_phys_width(format) = 0 \/ audio_format_width(format) = 0
  THEN << >>
  ELSE AudioFrames(format, channels, size, cb_buf, cpu_le, 1)

\* buf after the call
tsig_audio_fill_buffer(format, channels, size, buf, cb_buf, cpu_le) ==
  AudioOverlay(buf, AudioWritten(format, channels, size, cb_buf, cpu_le))

(***************************************************************************)
(* The library's functions called on their own: call holds the arguments   *)
(* of one call and, once the call has been made, what it left.             *)
(***************************************************************************)
MaxAudioSize == 2

MaxAudioChannels == 2

AudioSamples == {-419, 0, 1024}

\* what the bytes of buf hold before the call
AudioFills == {0, 165}

AudioBufs ==
  {[j \in 1 .. MaxAudioSize * MaxAudioChannels * 8 + 2 |-> fill] : fill \in AudioFills}

AudioCall(format, channels, cb_buf, buf, cpu_le) ==
  [ pc |-> "audio", done |-> FALSE, format |-> format, channels |-> channels,
    size |-> Len(cb_buf), cb_buf |-> cb_buf, cpu_le |-> cpu_le,
    buf0 |-> buf, buf |-> buf, written |-> 0 ]

AudioCalls ==
  { AudioCall(format, channels, cb_buf, buf, cpu_le) :
      format \in audio_formats \cup {TSIG_AUDIO_FORMAT_UNKNOWN},
      channels \in 1 .. MaxAudioChannels,
      cb_buf \in UNION {[1 .. n -> AudioSamples] : n \in 0 .. MaxAudioSize},
      buf \in AudioBufs, cpu_le \in BOOLEAN }

AudioFill ==
  /\ call.pc = "audio" /\ ~call.done
  /\ call' = [call EXCEPT
       !.done = TRUE,
       !.buf = tsig_audio_fill_buffer(call.format, call.channels, call.size, call.buf,
                                      call.cb_buf, call.cpu_le),
       !.written = Len(AudioWritten(call.format, call.channels, call.size,
                                    call.cb_buf, call.cpu_le))]
  /\ UNCHANGED <<st, h, enc, osc, alsa, host>>

\* the physical widths of the format taxonomy: 2 bytes for 16-bit samples, 4
\* for 24-bit, 32-bit and FLOAT samples, 8 for FLOAT64
ClaimedPhysWidth(format) ==
  IF format \in {"S16", "S16_LE", "S16_BE", "U16", "U16_LE", "U16_BE"} THEN 2
  ELSE IF format \in {"FLOAT64", "FLOAT64_LE", "FLOAT64_BE"} THEN 8
  ELSE 4

\* slot c of frame i of a buffer of pw-byte slots
AudioSlotAt(buf, channels, pw, i, c) ==
  SubSeq(buf, ((i - 1) * channels + (c - 1)) * pw + 1, ((i - 1) * channels + c) * pw)

FillsFrames(c, pw) ==
  /\ c.written = c.size * c.channels * pw
  /\ \A j \in 1 .. Len(c.buf) : j > c.size * c.channels * pw => c.buf[j] = c.buf0[j]
  /\ \A i \in 1 .. c.size : \A ch \in 1 .. c.channels :
       /\ AudioSlotAt(c.buf, c.channels, pw, i, ch) = AudioSlotAt(c.buf, c.channels, pw, i, 1)
       /\ AudioSlotAt(c.buf, c.channels, pw, i, ch)
            = tsig_audio_fill_buffer(c.format, 1, 1, [j \in 1 .. pw |-> 0],
                                     <<c.cb_buf[i]>>, c.cpu_le)

\* C12: for every known format, channel count and N, tsig_audio_fill_buffer
\* writes exactly N * channels * phys_width(format) bytes, frame by frame in
\* sample order, every channel slot of a frame holding the same bytes, and
\* writes no byte beyond that region.
C12_FillsExactRegion ==
  (call.pc = "audio" /\ call.done /\ call.format \in audio_formats) =>
    FillsFrames(call, ClaimedPhysWidth(call.format))

\* two frames of two channels of 24-bit samples in 4-byte slots on a
\* big-endian machine, written over a buffer of nonzero bytes
C12_Witness ==
  /\ call.pc = "audio" /\ call.done /\ call.format = "S24_LE" /\ ~call.cpu_le
  /\ call.channels = 2 /\ call.size = 2 /\ call.cb_buf = <<-419, 1024>>
  /\ call.written = 16 /\ call.buf0[1] = 165 /\ call.buf[17] = 165
  /\ SubSeq(call.buf, 1, 4) = SubSeq(call.buf, 5, 8)
  /\ SubSeq(call.buf, 9, 12) = <<0, 255, 127, 0>>

\* C13: asked to emit an unknown format, the codec zeroes the output bytes:
\* after the call the buffer holds only zero bytes, whatever it held before.
C13_UnknownFormatZeroes ==
  (call.pc = "audio" /\ call.done /\ call.format = TSIG_AUDIO_FORMAT_UNKNOWN) =>
    \A j \in 1 .. Len(call.buf) : call.buf[j] = 0

\* what the code does with an unknown format: it returns before the first
\* store and the buffer is left as it was
UnknownFormatLeavesBuffer ==
  (call.pc = "audio" /\ call.done /\ call.format = TSIG_AUDIO_FORMAT_UNKNOWN) =>
    call.buf = call.buf0 /\ call.written = 0

\* the sample rates of audio_rates
audio_rates == {44100, 48000, 88200, 96000, 176400, 192000, 352800, 384000}

StationInitCalls ==
  { [ pc |-> "station_init", done |-> FALSE, station |-> Idle,
      cfg |-> SchedCfg(id, rate, TSIG_STATION_BASE_SYSTEM, 0, TRUE, ultrasound) ] :
      id \in StationIds, rate \in audio_rates, ultrasound \in BOOLEAN }

StationInitCall ==
  /\ call.pc = "station_init" /\ ~call.done
  /\ call' = [call EXCEPT !.done = TRUE, !.station = tsig_station_init(call.cfg)]
  /\ UNCHANGED <<st, h, enc, osc, alsa, host>>

\* k is the smallest odd number from 1 on with nominal / k <= limit
SmallestOddSubharmonic(nominal, limit, k) ==
  /\ k % 2 = 1 /\ nominal \div k <= limit
  /\ \A j \in 1 .. k - 1 : j % 2 = 1 => nominal \div j > limit

\* C16: tsig_station_init chooses the emit frequency nominal / k for the
\* smallest odd k >= 1 with nominal / k <= limit, the limit being 20000 Hz, or
\* rate / 2 when ultrasound is enabled; the search ends for every station and
\* every supported rate.
C16_SmallestOddSubharmonic ==
  (call.pc = "station_init" /\ call.done) =>
    \E k \in 1 .. 99 :
      /\ call.station.freq = station_info[call.cfg.station].freq \div k
      /\ SmallestOddSubharmonic(station_info[call.cfg.station].freq,
                                IF call.cfg.ultrasound THEN call.cfg.rate \div 2
                                ELSE 20000, k)

\* DCF77 at 44100 Hz without ultrasound: 77500 / 5 = 15500 Hz, 77500 / 3
\* being above 20000 Hz
C16_Witness ==
  /\ call.pc = "station_init" /\ call.done /\ call.cfg.station = "DCF77"
  /\ call.cfg.rate = 44100 /\ ~call.cfg.ultrasound /\ call.station.freq = 15500

\* BPC at 96000 Hz with ultrasound: 68500 / 3 = 22833 Hz, below 48000 Hz
C16_WitnessUltrasound ==
  /\ call.pc = "station_init" /\ call.done /\ call.cfg.station = "BPC"
  /\ call.cfg.rate = 96000 /\ call.cfg.ultrasound /\ call.station.freq = 22833

\* the days from 2024-01-01 on that the summer time functions are called
\* for: ten years, in which the last Sunday of March falls on each of the
\* 25th to the 31st
MaxDstDays == 3653

\* 00:00, 00:59, 01:00, 01:01, 12:00 and 23:59
DstMinutes == {0, 59, 60, 61, 720, 1439}

\* the days of March, October and November and the first and last days of
\* the other months
DstTimestamps ==
  { Ms64(19723 + k, m * datetime_msecs_min) :
      k \in { j \in 0 .. MaxDstDays - 1 :
                \/ tsig_datetime_parse_timestamp(Ms64(19723 + j, 0)).mon \in {3, 10, 11}
                \/ tsig_datetime_parse_timestamp(Ms64(19723 + j, 0)).day \in {1, 28, 29, 30, 31} },
      m \in DstMinutes }

\* has_out tells whether an out pointer is given; out is the variable the
\* caller has for the result, 0 or FALSE before the call
DstCalls ==
  { [ pc |-> pc, done |-> FALSE, t |-> t, datetime |-> tsig_datetime_parse_timestamp(t),
      has_out |-> has_out, out |-> IF pc = "eu_dst" THEN 0 ELSE FALSE, ret |-> FALSE ] :
      pc \in {"eu_dst", "us_dst"}, t \in DstTimestamps, has_out \in BOOLEAN }

\* is_est = tsig_datetime_is_eu_dst(datetime, out_in_mins)
EuDstCall ==
  /\ call.pc = "eu_dst" /\ ~call.done
  /\ call' = [call EXCEPT
       !.done = TRUE,
       !.ret = tsig_datetime_is_eu_dst(call.datetime).is_est,
       !.out = IF call.has_out THEN tsig_datetime_is_eu_dst(call.datetime).in_mins
               ELSE @]
  /\ UNCHANGED <<st, h, enc, osc, alsa, host>>

\* is_dst = tsig_datetime_is_us_dst(datetime, out_is_dst_end)
UsDstCall ==
  /\ call.pc = "us_dst" /\ ~call.done
  /\ call' = [call EXCEPT
       !.done = TRUE,
       !.ret = tsig_datetime_is_us_dst(call.datetime).is_dst,
       !.out = IF call.has_out THEN tsig_datetime_is_us_dst(call.datetime).is_dst_end
               ELSE @]
  /\ UNCHANGED <<st, h, enc, osc, alsa, host>>

\* C17: for every UTC datetime is_eu_dst returns true exactly when the month
\* is April to September, or it is March at or after 01:00 UTC on the last
\* Sunday of March, or October before 01:00 UTC on the last Sunday of
\* October.
C17_EuDstRule ==
  (call.pc = "eu_dst" /\ call.done) => (call.ret <=> RefEuSummer(call.datetime))

\* 00:59 and 01:00 UTC on the last Sunday of March 2025 and of October 2025
C17_Witness ==
  /\ call.pc = "eu_dst" /\ call.done /\ call.datetime.year = 2025
  /\ call.datetime.mon = 3 /\ call.datetime.day = 30
  /\ call.datetime.hour = 1 /\ call.datetime.min = 0 /\ call.ret

C17_WitnessOctober ==
  /\ call.pc = "eu_dst" /\ call.done /\ call.datetime.year = 2025
  /\ call.datetime.mon = 10 /\ call.datetime.day = 26
  /\ call.datetime.hour = 0 /\ call.datetime.min = 59 /\ call.ret

\* minutes from the start of u's minute to 01:00 UTC on the last Sunday of
\* u's month
RefMinsToChange(u) == (RefLastSunday(u) - u.day) * 1440 + 60 - (60 * u.hour + u.min)

\* C18: is_eu_dst sets in_mins to the minutes from the start of the
\* datetime's minute to the next 01:00 UTC changeover when that is ahead and
\* at most 1500 minutes away, and to -1 in every other case; without an out
\* pointer nothing is written.
C18_EuDstInMins ==
  (call.pc = "eu_dst" /\ call.done) =>
    IF ~call.has_out THEN call.out = 0
    ELSE IF /\ call.datetime.mon \in {3, 10}
            /\ RefMinsToChange(call.datetime) \in 1 .. 1500
    THEN call.out = RefMinsToChange(call.datetime)
    ELSE call.out = -1

\* 00:00 UTC on the Saturday before the last Sunday of October 2026: 25 hours
C18_Witness ==
  /\ call.pc = "eu_dst" /\ call.done /\ call.datetime.year = 2026
  /\ call.datetime.mon = 10 /\ call.datetime.day = 24 /\ call.datetime.dow = 6
  /\ call.datetime.hour = 0 /\ call.datetime.min = 0 /\ call.has_out /\ call.out = 1500

\* 00:59 UTC on the last Sunday of March 2024: one minute
C18_WitnessLastMinute ==
  /\ call.pc = "eu_dst" /\ call.done /\ call.datetime.year = 2024
  /\ call.datetime.mon = 3 /\ call.datetime.day = 31
  /\ call.datetime.hour = 0 /\ call.datetime.min = 59 /\ call.has_out /\ call.out = 1

\* the first Sunday of u's month
RefFirstSunday(u) == CHOOSE d \in 1 .. 7 : (u.dow + 35 + d - u.day) % 7 = 0

\* DST in the United States on UTC day u: April to October, March after the
\* second Sunday, November up to the first Sunday
RefUsDst(u) ==
  CASE u.mon \in 4 .. 10 -> TRUE
    [] u.mon = 3 -> u.day > RefFirstSunday(u) + 7
    [] u.mon = 11 -> u.day <= RefFirstSunday(u)
    [] OTHER -> FALSE

\* C19: for every UTC date is_us_dst returns true exactly when the month is
\* April to October, or March with the day after the second Sunday, or
\* November with the day on or before the first Sunday; is_end_of_day is the
\* same rule at the end of that day, so that the two differ only on the two
\* changeover Sundays.
C19_UsDstRule ==
  (call.pc = "us_dst" /\ call.done) =>
    /\ call.ret <=> RefUsDst(call.datetime)
    /\ ~call.has_out => call.out = FALSE
    /\ call.has_out =>
         /\ call.out <=> RefUsDst(tsig_datetime_parse_timestamp(Ms64(call.t.d + 1, 0)))
         /\ (call.out # call.ret) <=>
              \/ call.datetime.mon = 3 /\ call.datetime.day = RefFirstSunday(call.datetime) + 7
              \/ call.datetime.mon = 11 /\ call.datetime.day = RefFirstSunday(call.datetime)

\* the second Sunday of March 2025: no DST at the start of the day, DST at
\* its end
C19_Witness ==
  /\ call.pc = "us_dst" /\ call.done /\ call.datetime.year = 2025
  /\ call.datetime.mon = 3 /\ call.datetime.day = 9 /\ call.datetime.dow = 0
  /\ ~call.ret /\ call.has_out /\ call.out

(***************************************************************************)
(* mapping.c.  A string is the sequence of its char values up to the       *)
(* terminating NUL; a mapping is the sequence of its entries up to the     *)
(* empty entry that ends it.                                               *)
(***************************************************************************)
\* *s <= 'Z' ? *s + 'a' - 'A' : *s
tsig_mapping_fold(c) == IF c <= 90 THEN c + 32 ELSE c

\* s[n] of the C string, the NUL included
CharAt(s, n) == IF n < Len(s) THEN s[n + 1] ELSE 0

\* the offset at which the comparison loop over s1 and s2 stops
RECURSIVE MatchKeyStop(_, _, _)
MatchKeyStop(s1, s2, n) ==
  IF /\ CharAt(s1, n) # 0 /\ CharAt(s2, n) # 0
     /\ tsig_mapping_fold(CharAt(s1, n)) = tsig_mapping_fold(CharAt(s2, n))
  THEN MatchKeyStop(s1, s2, n + 1)
  ELSE n

\* if (*s1 == *s2) once the loop has stopped
MatchKeyEntry(s1, s2, n) == CharAt(s1, n) = CharAt(s2, n)

\* the loop over the entries from entry i on
RECURSIVE MatchKeyFrom(_, _, _)
MatchKeyFrom(mapping, key, i) ==
  IF i > Len(mapping) THEN -1
  ELSE IF MatchKeyEntry(mapping[i].key, key, MatchKeyStop(mapping[i].key, key, 0))
       THEN mapping[i].value
       ELSE MatchKeyFrom(mapping, key, i + 1)

tsig_mapping_match_key(mapping, key) == MatchKeyFrom(mapping, key, 1)

\* {"Foo", 0}, {"Bar", 1}
test_mapping ==
  << [key |-> <<70, 111, 111>>, value |-> 0],
     [key |-> <<66, 97, 114>>, value |-> 1] >>

\* {"S16", 0}, {"S16_LE", 1}, {"S16_BE", 2}: the first entries of audio_formats
MatchKeyFormats ==
  << [key |-> <<83, 49, 54>>, value |-> 0],
     [key |-> <<83, 49, 54, 95, 76, 69>>, value |-> 1],
     [key |-> <<83, 49, 54, 95, 66, 69>>, value |-> 2] >>

\* F f o O B b a r R z S s 1 6 _ ? L l E e - Q
MatchKeyChars ==
  {70, 102, 111, 79, 66, 98, 97, 114, 82, 122, 83, 115, 49, 54, 95, 63, 76, 108, 69, 101,
   45, 81}

\* the strings near a key: the key with one char replaced, its prefixes and
\* its extensions by one char
MatchKeyNear(k) ==
  { [j \in 1 .. Len(k) |-> IF j = i THEN c ELSE k[j]] : i \in 1 .. Len(k), c \in MatchKeyChars }
    \cup { SubSeq(k, 1, n) : n \in 0 .. Len(k) }
    \cup { Append(k, c) : c \in MatchKeyChars }

MatchKeyInputs(mapping) == UNION { MatchKeyNear(mapping[i].key) : i \in 1 .. Len(mapping) }

\* has_key is false for a NULL key
MatchKeyCalls ==
  { [ pc |-> "match_key", done |-> FALSE, mapping |-> m, has_key |-> TRUE, key |-> k,
      crashed |-> FALSE, ret |-> 0 ] :
      m \in {test_mapping}, k \in MatchKeyInputs(test_mapping) }
    \cup
  { [ pc |-> "match_key", done |-> FALSE, mapping |-> m, has_key |-> TRUE, key |-> k,
      crashed |-> FALSE, ret |-> 0 ] :
      m \in {MatchKeyFormats}, k \in MatchKeyInputs(MatchKeyFormats) }
    \cup
  { [ pc |-> "match_key", done |-> FALSE, mapping |-> m, has_key |-> FALSE, key |-> << >>,
      crashed |-> FALSE, ret |-> 0 ] : m \in {test_mapping, MatchKeyFormats} }

\* what a call can do.  With a NULL key the loop condition *s1 && *s2 reads
\* through the null pointer as soon as a first entry has a non-empty key:
\* the process is killed, or the read yields some byte and the call returns
\* -1 or the value of an entry.
MatchKeyOutcomes(mapping, has_key, key) ==
  IF has_key
  THEN { [crashed |-> FALSE, ret |-> tsig_mapping_match_key(mapping, key)] }
  ELSE { [crashed |-> TRUE, ret |-> 0] }
         \cup { [crashed |-> FALSE, ret |-> v] :
                  v \in {-1} \cup { mapping[i].value : i \in 1 .. Len(mapping) } }

\* value = tsig_mapping_match_key(mapping, key)
MatchKeyCall ==
  /\ call.pc = "match_key" /\ ~call.done
  /\ \E o \in MatchKeyOutcomes(call.mapping, call.has_key, call.key) :
       call' = [call EXCEPT !.done = TRUE, !.crashed = o.crashed, !.ret = o.ret]
  /\ UNCHANGED <<st, h, enc, osc, alsa, host>>

RefIsLetter(c) == c \in 65 .. 90 \/ c \in 97 .. 122

\* equal when only the case of ASCII letters is ignored
RefSameIgnoringCase(a, b) ==
  /\ Len(a) = Len(b)
  /\ \A j \in 1 .. Len(a) :
       \/ a[j] = b[j]
       \/ RefIsLetter(a[j]) /\ RefIsLetter(b[j]) /\ (a[j] - b[j] = 32 \/ b[j] - a[j] = 32)

RefMatching(mapping, key) ==
  { i \in 1 .. Len(mapping) : RefSameIgnoringCase(mapping[i].key, key) }

\* the first i in a non-empty set of indices
RefFirst(is) == CHOOSE i \in is : \A j \in is : i <= j

RefMatchKey(mapping, has_key, key) ==
  IF has_key /\ RefMatching(mapping, key) # {}
  THEN mapping[RefFirst(RefMatching(mapping, key))].value
  ELSE -1

\* C22: tsig_mapping_match_key returns the value of the first entry whose key
\* equals the given string when only ASCII letter case is ignored, and -1 for
\* every other input: a NULL key, the empty string, a proper prefix or an
\* extension of a key, and a string that differs from every key in a
\* non-letter character.
C22_MatchKeyIgnoresLetterCase ==
  (call.pc = "match_key" /\ call.done) =>
    /\ ~call.crashed
    /\ call.ret = RefMatchKey(call.mapping, call.has_key, call.key)

\* ; < = > ? @ and [ \ ] ^ _ `: the chars that the folding pairs up
MatchKeyPunctuation == (59 .. 64) \cup (91 .. 96)

\* what holds instead: the claim's result for every non-NULL string that has
\* none of the twelve punctuation chars next to the letters
MatchKeyOffPunctuation ==
  (/\ call.pc = "match_key" /\ call.done /\ call.has_key
   /\ \A j \in 1 .. Len(call.key) : call.key[j] \notin MatchKeyPunctuation) =>
    /\ ~call.crashed
    /\ call.ret = RefMatchKey(call.mapping, TRUE, call.key)

\* "S16?LE" is taken for "S16_LE"
MatchKeyQuestionMark ==
  /\ call.pc = "match_key" /\ call.done /\ call.has_key
  /\ call.key = <<83, 49, 54, 63, 76, 69>> /\ call.ret = 1

\* the cases of the claim that do hold: "FoO", "", "Fo", "Foo-", "S16-LE"
MatchKeyCasesThatHold ==
  /\ call.pc = "match_key" /\ call.done /\ call.has_key
  /\ \/ call.key = <<70, 111, 79>> /\ call.ret = 0
     \/ call.key = << >> /\ call.ret = -1
     \/ call.key = <<70, 111>> /\ call.ret = -1
     \/ call.key = <<70, 111, 111, 45>> /\ call.ret = -1
     \/ call.key = <<83, 49, 54, 45, 76, 69>> /\ call.ret = -1

CallInit ==
  /\ call \in AudioCalls \cup StationInitCalls \cup DstCalls \cup MatchKeyCalls
  /\ st = Idle /\ h = Idle /\ enc = Idle /\ osc = Idle /\ alsa = Idle /\ host = Idle

CallNext == AudioFill \/ StationInitCall \/ EuDstCall \/ UsDstCall \/ MatchKeyCall

SpecCall == CallInit /\ [][CallNext]_vars

(***************************************************************************)
(* timesignal.c: main from the call of timesignal_find_backend_order on,   *)
(* built with the three backends.  host.order is timesignal_backends up to *)
(* its TSIG_BACKEND_UNKNOWN entry, host.i the position of the pointer      *)
(* backend in it, host.log the calls made of the backends' functions, in   *)
(* order, each with what it returned.                                      *)
(***************************************************************************)
TSIG_BACKEND_UNKNOWN == "UNKNOWN"

timesignal_backends == <<"PIPEWIRE", "PULSE", "ALSA">>

timesignal_find_backend_order(backend) ==
  IF backend # TSIG_BACKEND_UNKNOWN THEN <<backend>> ELSE timesignal_backends

\* what a backend's loop returns: 0, SIGINT, SIGALRM, SIGTERM or a negative
\* error code (-EIO, -EPIPE)
HostLoopResults == {0, 2, 14, 15, -5, -32}

HostStart(backend) ==
  [ pc |-> "top", order |-> timesignal_find_backend_order(backend), i |-> 1,
    is_done |-> FALSE, err |-> 0, exit |-> "none", log |-> << >> ]

HostCalled(hs, fn, ret) ==
  [hs EXCEPT !.log = Append(@, [fn |-> fn, backend |-> hs.order[hs.i], ret |-> ret])]

HostInit ==
  /\ host \in {HostStart(b) : b \in {TSIG_BACKEND_UNKNOWN, "PIPEWIRE", "PULSE", "ALSA"}}
  /\ st = Idle /\ h = Idle /\ enc = Idle /\ osc = Idle /\ alsa = Idle /\ call = Idle

\* err = backend->lib_init(log); if (err < 0) continue;
HostLibInit ==
  /\ host.pc = "top" /\ ~host.is_done /\ host.i <= Len(host.order)
  /\ \E err \in {0, -1} :
       host' = [HostCalled(host, "lib_init", err) EXCEPT
                  !.err = err,
                  !.pc = IF err < 0 THEN "top" ELSE "init",
                  !.i = IF err < 0 THEN @ + 1 ELSE @]
  /\ UNCHANGED <<st, h, enc, osc, alsa, call>>

\* a backend init whose failure continues with the next backend at once
HostBackendInitContinue ==
  /\ host.pc = "init"
  /\ \E err \in {0, -1} :
       host' = [(IF err >= 0 /\ host.order[host.i] \in {"PULSE", "ALSA"}
                 THEN HostCalled(HostCalled(host, "init", err), "set_rate", 0)
                 ELSE HostCalled(host, "init", err)) EXCEPT
                  !.err = err,
                  !.pc = IF err < 0 THEN "top" ELSE "loop",
                  !.i = IF err < 0 THEN @ + 1 ELSE @]
  /\ UNCHANGED <<st, h, enc, osc, alsa, call>>

\* err = backend->init(...); if (err < 0) goto loop_backend_lib_deinit; and
\* tsig_station_set_rate for the PulseAudio and ALSA backends
HostBackendInit ==
  /\ host.pc = "init"
  /\ \E err \in {0, -1} :
       host' = [(IF err >= 0 /\ host.order[host.i] \in {"PULSE", "ALSA"}
                 THEN HostCalled(HostCalled(host, "init", err), "set_rate", 0)
                 ELSE HostCalled(host, "init", err)) EXCEPT
                  !.err = err,
                  !.pc = IF err < 0 THEN "lib_deinit" ELSE "loop"]
  /\ UNCHANGED <<st, h, enc, osc, alsa, call>>

\* err = backend->loop(...); the log messages; is_done = true; deinit
HostLoop ==
  /\ host.pc = "loop"
  /\ \E err \in HostLoopResults :
       host' = [HostCalled(HostCalled(host, "loop", err), "deinit", 0) EXCEPT
                  !.err = err, !.is_done = TRUE, !.pc = "lib_deinit"]
  /\ UNCHANGED <<st, h, enc, osc, alsa, call>>

\* loop_backend_lib_deinit: backend->lib_deinit(log); and backend++
HostLibDeinit ==
  /\ host.pc = "lib_deinit"
  /\ host' = [HostCalled(host, "lib_deinit", 0) EXCEPT !.pc = "top", !.i = @ + 1]
  /\ UNCHANGED <<st, h, enc, osc, alsa, call>>

\* after the for loop: exit(EXIT_FAILURE) if (!is_done), else exit(EXIT_SUCCESS)
HostExit ==
  /\ host.pc = "top" /\ (host.is_done \/ host.i > Len(host.order))
  /\ host' = [host EXCEPT !.pc = "exited",
                          !.exit = IF ~host.is_done THEN "EXIT_FAILURE" ELSE "EXIT_SUCCESS"]
  /\ UNCHANGED <<st, h, enc, osc, alsa, call>>

HostNext == HostLibInit \/ HostBackendInit \/ HostLoop \/ HostLibDeinit \/ HostExit

SpecHost == HostInit /\ [][HostNext]_vars

\* the results of the calls of a backend's loop
HostLoopRets(hs) == {hs.log[k].ret : k \in {j \in 1 .. Len(hs.log) : hs.log[j].fn = "loop"}}

\* C15: if the backend's output loop returns a negative error code the
\* process ends with a failure exit status; it exits with success only when
\* the loop ended normally or on a termination signal.
C15_SinkErrorExitsFailure ==
  host.pc = "exited" =>
    /\ (\E r \in HostLoopRets(host) : r < 0) => host.exit = "EXIT_FAILURE"
    /\ host.exit = "EXIT_SUCCESS" =>
         (HostLoopRets(host) # {} /\ \A r \in HostLoopRets(host) : r >= 0)

\* what main does: it exits with success whenever a loop has run, whatever
\* the loop returned, and with failure only when no backend could be set up
ExitSuccessIffLoopRan ==
  host.pc = "exited" => (host.exit = "EXIT_SUCCESS" <=> HostLoopRets(host) # {})

\* the positions in the log of the calls of fn on backend b with a result in rets
HostCalls(fn, b, rets) ==
  { k \in 1 .. Len(host.log) :
      host.log[k].fn = fn /\ host.log[k].backend = b /\ host.log[k].ret \in rets }

HostOk == {0}

HostFailed == {-1}

\* backend number n of the order was set up: lib_init and init both succeeded
HostSetUp(n) ==
  /\ HostCalls("lib_init", host.order[n], HostOk) # {}
  /\ HostCalls("init", host.order[n], HostOk) # {}

\* the backends that main called lib_init on, in the order of the calls
HostTried ==
  [ n \in 1 .. Cardinality({k \in 1 .. Len(host.log) : host.log[k].fn = "lib_init"}) |->
      host.order[n] ]

\* C30: main tries the backends in order and stops at the first whose
\* lib_init and init both succeed: the loop runs on at most one backend and
\* never on one whose init failed; every successful lib_init is followed by
\* exactly one lib_deinit of the same backend, every successful init by
\* exactly one deinit before that lib_deinit, a backend whose lib_init failed
\* gets neither, and if no backend initialises the process exits with failure.
C30_BackendLifecycle ==
  host.pc = "exited" =>
    /\ \A n \in 1 .. Len(host.order) :
         /\ Cardinality(HostCalls("lib_init", host.order[n], HostOk \cup HostFailed))
              = (IF \E m \in 1 .. (n - 1) : HostSetUp(m) THEN 0 ELSE 1)
         /\ Cardinality(HostCalls("lib_deinit", host.order[n], HostOk))
              = Cardinality(HostCalls("lib_init", host.order[n], HostOk))
         /\ Cardinality(HostCalls("deinit", host.order[n], HostOk))
              = Cardinality(HostCalls("init", host.order[n], HostOk))
         /\ Cardinality(HostCalls("loop", host.order[n], HostLoopResults))
              = Cardinality(HostCalls("init", host.order[n], HostOk))
         /\ Cardinality(HostCalls("init", host.order[n], HostOk \cup HostFailed))
              = Cardinality(HostCalls("lib_init", host.order[n], HostOk))
         /\ \A i \in HostCalls("lib_init", host.order[n], HostOk) :
              \A d \in HostCalls("lib_deinit", host.order[n], HostOk) : i < d
         /\ \A i \in HostCalls("init", host.order[n], HostOk) :
              \A l \in HostCalls("loop", host.order[n], HostLoopResults) :
                \A d \in HostCalls("deinit", host.order[n], HostOk) :
                  \A ld \in HostCalls("lib_deinit", host.order[n], HostOk) :
                    i < l /\ l < d /\ d < ld
    /\ \A k \in 1 .. Len(host.log) :
         host.log[k].fn = "lib_init" =>
           host.log[k].backend = HostTried[Cardinality({j \in 1 .. k : host.log[j].fn = "lib_init"})]
    /\ Cardinality({k \in 1 .. Len(host.log) : host.log[k].fn = "loop"}) <= 1
    /\ (\A n \in 1 .. Len(host.order) : ~HostSetUp(n)) => host.exit = "EXIT_FAILURE"

\* PipeWire's lib_init fails, PulseAudio's init fails and gets its
\* lib_deinit, and the loop runs on ALSA
C30_Witness ==
  /\ host.pc = "exited" /\ Len(host.order) = 3
  /\ HostCalls("lib_init", "PIPEWIRE", HostFailed) # {}
  /\ HostCalls("init", "PULSE", HostFailed) # {}
  /\ HostCalls("lib_deinit", "PULSE", HostOk) # {}
  /\ HostCalls("loop", "ALSA", HostLoopResults) # {}
  /\ HostCalls("lib_deinit", "ALSA", HostOk) # {}

\* no backend can be set up
C30_WitnessNone ==
  /\ host.pc = "exited" /\ Len(host.order) = 3 /\ host.exit = "EXIT_FAILURE"
  /\ \A n \in 1 .. 3 : ~HostSetUp(n)
=============================================================================
